---------------------------- MODULE Spec2Model ----------------------------
(***************************************************************************)
(* A model of the filesys crate: the node store (src/src/fs.rs), the       *)
(* access control and user directory (src/src/users.rs), the action        *)
(* dispatcher with its session gate and snapshot (src/src/lib.rs) and the  *)
(* global audit logger (src/src/log.rs).                                   *)
(*                                                                         *)
(* Conventions.  A Rust Result is a record [ok, err, val]; the error text  *)
(* is the text of the anyhow error of the source.  A Path is the sequence  *)
(* of the components Path::components() yields, the RootDir component      *)
(* (which reduce_segments skips) left out: <<>> stands for "/" and for "", *)
(* <<"docs","readme">> for "/docs/readme" and for "docs/readme".  A        *)
(* HashMap is a function on its key set.                                   *)
(***************************************************************************)
EXTENDS Integers, Sequences, FiniteSets, TLC

VARIABLES
    fs,           \* System.fs: [nodes, node_counter]            (lib.rs:67)
    users,        \* System.users: [id_ctr, unames, users]       (lib.rs:68)
    last_access,  \* System.last_access: UserId -> Instant       (lib.rs:69)
    now,          \* the monotonic clock read by Instant::now()
    log,          \* the entries of the global LOGGER            (log.rs:94)
    ret,          \* the last call made on the API and what it returned
    server        \* the requests of the transport and the lock  (server.rs:18)

vars == <<fs, users, last_access, now, log, ret, server>>

-----------------------------------------------------------------------------
(* Bounds of the model *)

MaxNodes == 3      \* no node id reaches MaxNodes
MaxUsers == 3      \* no user id reaches MaxUsers
MaxTicks == 2      \* the clock advances at most MaxTicks times
MaxLog == 1        \* the audit log holds at most MaxLog entries

(* Program constants *)

ROOT_ID == 0
ADMIN_ID == 0
MAX_LOGIN_TRIES == 3
INACTIVITY_TIMEOUT == 60

-----------------------------------------------------------------------------
(* Results *)

Ok(v) == [ok |-> TRUE, err |-> "", val |-> v]
Err(e) == [ok |-> FALSE, err |-> e, val |-> <<>>]
Unit == <<>>

PermissionDenied == "permission denied"
NotFound == "file doesn't exist"
NotADir == "is not a dir"
NotAFile == "is not a regular file"
AlreadyExists == "file exists"
Conflict == "can't remove non-empty directory"
BadFileName == "path can't end in .."
NodeShouldExist == "panic: bug: node should exist"

-----------------------------------------------------------------------------
(* users.rs: Op, Perms, AccessMap *)

Op == {"Read", "Write", "Exec", "Control"}

Perms == [read : BOOLEAN, write : BOOLEAN, exec : BOOLEAN, control : BOOLEAN]

PermsDefault == [read |-> FALSE, write |-> FALSE, exec |-> FALSE, control |-> FALSE]

PermsHas(perms, op) ==
    CASE op = "Read" -> perms.read
      [] op = "Write" -> perms.write
      [] op = "Exec" -> perms.exec
      [] op = "Control" -> perms.control

RECURSIVE ReduceAnd(_)
ReduceAnd(bools) ==
    IF Len(bools) = 1 THEN bools[1]
    ELSE ReduceAnd(<<bools[1] /\ bools[2]>> \o SubSeq(bools, 3, Len(bools)))

intersects_any(perms, ops) ==
    \E i \in 1..Len(ops) : PermsHas(perms, ops[i])

intersects(perms, ops) ==
    IF ops = <<>> THEN FALSE
    ELSE ReduceAnd([i \in 1..Len(ops) |-> PermsHas(perms, ops[i])])

allows_no_admin_bypass(acl, uid, ops) ==
    IF uid \in DOMAIN acl THEN intersects(acl[uid], ops) ELSE FALSE

allows(acl, uid, ops) ==
    IF uid = ADMIN_ID THEN TRUE
    ELSE IF uid \in DOMAIN acl THEN intersects(acl[uid], ops)
    ELSE FALSE

AccessMap_new == [u \in {} |-> PermsDefault]

AccessMap_set(acl, uid, perms) ==
    IF uid # ADMIN_ID THEN (uid :> perms) @@ acl ELSE acl

AccessMap_get(acl, uid) ==
    IF uid \in DOMAIN acl THEN acl[uid] ELSE PermsDefault

-----------------------------------------------------------------------------
(* fs.rs: File, Dir, Node *)

File_write_append(content, data) == content \o data

File_write(content, data) ==
    LET cleared == "" IN cleared \o data

Dir_new(id, parent_id) == ("." :> id) @@ (".." :> parent_id)

Dir_add(nodes, name, id) == (name :> id) @@ nodes

\* A removal that leaves the name bound.
Dir_rm_nothing(nodes, name) == nodes

Dir_rm(nodes, name) == [n \in DOMAIN nodes \ {name} |-> nodes[n]]

Dir_len(nodes) == Cardinality(DOMAIN nodes)

Dir_is_empty_never(nodes) == Dir_len(nodes) = 0

Dir_is_empty(nodes) == Dir_len(nodes) = 2

NoEntries == [n \in {} |-> 0]

Node_new_file(id) ==
    [id |-> id, kind |-> "File", content |-> "", nodes |-> NoEntries,
     perms |-> AccessMap_new]

Node_new_dir(id, parent_id) ==
    [id |-> id, kind |-> "Dir", content |-> "", nodes |-> Dir_new(id, parent_id),
     perms |-> AccessMap_new]

\* A new node on which the first user after the administrator holds every
\* capability.
Node_new_with_tag_granted(id, parent_id, tag) ==
    [IF tag = "File" THEN Node_new_file(id) ELSE Node_new_dir(id, parent_id)
        EXCEPT !.perms = [u \in {ADMIN_ID + 1} |->
                             [read |-> TRUE, write |-> TRUE, exec |-> TRUE, control |-> TRUE]]]

Node_new_with_tag(id, parent_id, tag) ==
    IF tag = "File" THEN Node_new_file(id) ELSE Node_new_dir(id, parent_id)

check_if_allowed(node, uid, ops) ==
    IF allows(node.perms, uid, ops) THEN Ok(Unit) ELSE Err(PermissionDenied)

Node_set_perm(node, uid, perms) ==
    [node EXCEPT !.perms = AccessMap_set(node.perms, uid, perms)]

Node_perms_for(node, uid) == AccessMap_get(node.perms, uid)

Node_size(node) ==
    IF node.kind = "File" THEN Len(node.content) ELSE Dir_len(node.nodes)

-----------------------------------------------------------------------------
(* fs.rs: paths *)

\* Path::file_name() through filename(): the last component when it is a
\* normal one; None for the empty path, "/" and a path ending in "." or "..".
filename(path) ==
    IF path = <<>> \/ path[Len(path)] \in {".", ".."} THEN Err(BadFileName)
    ELSE Ok(path[Len(path)])

\* path.parent().unwrap_or_else(|| Path::new(".")): the path without its last
\* component; "." when the path has none.
parent_of(path) ==
    IF path = <<>> THEN <<".">> ELSE SubSeq(path, 1, Len(path) - 1)

-----------------------------------------------------------------------------
(* fs.rs: Fs.  f is a record [nodes, node_counter]; a node reference is the
   node's id. *)

Fs_new ==
    [nodes |-> (ROOT_ID :> Node_new_dir(ROOT_ID, ROOT_ID)),
     node_counter |-> ROOT_ID + 1]

get_node_unchecked(f, uid, node_id) ==
    IF node_id \notin DOMAIN f.nodes THEN Err(NodeShouldExist) ELSE Ok(node_id)

get_node(f, uid, node_id) ==
    IF node_id \notin DOMAIN f.nodes THEN Err(NodeShouldExist)
    ELSE LET Then(c) == IF c.ok THEN Ok(node_id) ELSE c
         IN Then(check_if_allowed(f.nodes[node_id], uid, <<"Read">>))

\* The borrow is checked for Write; the value is the node's id.
get_node_mut(f, uid, node_id) ==
    IF node_id \notin DOMAIN f.nodes THEN Err(NodeShouldExist)
    ELSE LET Then(c) == IF c.ok THEN Ok(node_id) ELSE c
         IN Then(check_if_allowed(f.nodes[node_id], uid, <<"Write">>))

lookup(f, uid, parent_id, name) ==
    LET Then(p) ==
            IF ~p.ok THEN p
            ELSE IF f.nodes[parent_id].kind # "Dir" THEN Err(NotADir)
            ELSE IF name \notin DOMAIN f.nodes[parent_id].nodes THEN Err(NotFound)
            ELSE get_node(f, uid, f.nodes[parent_id].nodes[name])
    IN Then(get_node(f, uid, parent_id))

RECURSIVE reduce_segments(_, _, _, _)
reduce_segments(f, uid, path, element) ==
    IF path = <<>> THEN Ok(element)
    ELSE LET Then(r) == IF ~r.ok THEN r ELSE reduce_segments(f, uid, Tail(path), r.val)
         IN Then(lookup(f, uid, element, Head(path)))

resolve_path(f, uid, path) ==
    LET Then(root) == IF ~root.ok THEN root ELSE reduce_segments(f, uid, path, root.val)
    IN Then(get_node(f, uid, ROOT_ID))

resolve_path_mut(f, uid, path) ==
    LET Then(r) == IF ~r.ok THEN r ELSE get_node_mut(f, uid, r.val)
    IN Then(resolve_path(f, uid, path))

resolve_parent_of(f, uid, path) == resolve_path(f, uid, parent_of(path))

resolve_parent_of_mut(f, uid, path) == resolve_path_mut(f, uid, parent_of(path))

\* A call on the store: the store after the call and the call's result.
Call(f, res) == [fs |-> f, res |-> res]

\* A create that binds the name anew when it is bound already.
create_over_existing(f, uid, parent_id, name, tag) ==
    LET Then(p) ==
            IF ~p.ok THEN Call(f, p)
            ELSE IF f.nodes[parent_id].kind # "Dir" THEN Call(f, Err(NotADir))
            ELSE LET id == f.node_counter
                     node == Node_new_with_tag(id, parent_id, tag)
                     parent == [f.nodes[parent_id] EXCEPT
                                   !.nodes = Dir_add(f.nodes[parent_id].nodes, name, id)]
                 IN Call([nodes |-> (id :> node) @@ (parent_id :> parent) @@ f.nodes,
                          node_counter |-> id + 1],
                         Ok(id))
    IN Then(get_node_mut(f, uid, parent_id))

\* A create that hands out the least id that no live node has.
create_reusing_ids(f, uid, parent_id, name, tag) ==
    LET Then(p) ==
            IF ~p.ok THEN Call(f, p)
            ELSE IF f.nodes[parent_id].kind # "Dir" THEN Call(f, Err(NotADir))
            ELSE IF name \in DOMAIN f.nodes[parent_id].nodes
                 THEN Call(f, Err(AlreadyExists))
            ELSE LET id == CHOOSE i \in 0..f.node_counter :
                               /\ i \notin DOMAIN f.nodes
                               /\ \A j \in 0..(i - 1) : j \in DOMAIN f.nodes
                     node == Node_new_with_tag(id, parent_id, tag)
                     parent == [f.nodes[parent_id] EXCEPT
                                   !.nodes = Dir_add(f.nodes[parent_id].nodes, name, id)]
                 IN Call([nodes |-> (id :> node) @@ (parent_id :> parent) @@ f.nodes,
                          node_counter |-> f.node_counter + 1],
                         Ok(id))
    IN Then(get_node_mut(f, uid, parent_id))

create(f, uid, parent_id, name, tag) ==
    LET Then(p) ==
            IF ~p.ok THEN Call(f, p)
            ELSE IF f.nodes[parent_id].kind # "Dir" THEN Call(f, Err(NotADir))
            ELSE IF name \in DOMAIN f.nodes[parent_id].nodes
                 THEN Call(f, Err(AlreadyExists))
            ELSE LET id == f.node_counter
                     node == Node_new_with_tag(id, parent_id, tag)
                     parent == [f.nodes[parent_id] EXCEPT
                                   !.nodes = Dir_add(f.nodes[parent_id].nodes, name, id)]
                 IN Call([nodes |-> (id :> node) @@ (parent_id :> parent) @@ f.nodes,
                          node_counter |-> id + 1],
                         Ok(id))
    IN Then(get_node_mut(f, uid, parent_id))

Fs_read(f, uid, path) ==
    LET Then(r) ==
            IF ~r.ok THEN r
            ELSE IF f.nodes[r.val].kind # "File" THEN Err(NotAFile)
            ELSE Ok(f.nodes[r.val].content)
    IN Then(resolve_path(f, uid, path))

Fs_write(f, uid, path, data) ==
    LET Then(r) ==
            IF ~r.ok THEN Call(f, r)
            ELSE IF f.nodes[r.val].kind # "File" THEN Call(f, Err(NotAFile))
            ELSE Call([f EXCEPT !.nodes[r.val].content = File_write(@, data)], Ok(Unit))
    IN Then(resolve_path_mut(f, uid, path))

\* A removal that leaves the node in the arena.
rm_recursive_keep(nodes, id) == nodes

RECURSIVE rm_recursive(_, _)
RECURSIVE rm_each(_, _)
rm_recursive(nodes, id) ==
    IF id \notin DOMAIN nodes THEN nodes
    ELSE LET node == nodes[id]
             rest == [i \in DOMAIN nodes \ {id} |-> nodes[i]]
         IN IF node.kind = "Dir"
            THEN rm_each(rest, {node.nodes[n] : n \in DOMAIN node.nodes \ {".", ".."}})
            ELSE rest
rm_each(nodes, ids) ==
    IF ids = {} THEN nodes
    ELSE LET i == CHOOSE x \in ids : TRUE
         IN rm_each(rm_recursive(nodes, i), ids \ {i})

Fs_rm(f, uid, path) ==
    LET Unbind(name, parent, id, pm) ==
            IF ~pm.ok THEN Call(f, pm)
            ELSE LET unbound == [f.nodes EXCEPT ![parent.val].nodes = Dir_rm(@, name.val)]
                 IN Call([f EXCEPT !.nodes = rm_recursive(unbound, id)], Ok(Unit))
        Remove(name, parent, id, node) ==
            IF ~node.ok THEN Call(f, node)
            ELSE IF f.nodes[id].kind = "Dir" /\ ~Dir_is_empty(f.nodes[id].nodes)
                 THEN Call(f, Err(Conflict))
            ELSE Unbind(name, parent, id, get_node_mut(f, uid, parent.val))
        Then(name, parent) ==
            IF ~name.ok THEN Call(f, name)
            ELSE IF ~parent.ok THEN Call(f, parent)
            ELSE IF f.nodes[parent.val].kind # "Dir" THEN Call(f, Err(NotADir))
            ELSE IF name.val \notin DOMAIN f.nodes[parent.val].nodes
                 THEN Call(f, Err(NotFound))
            ELSE Remove(name, parent, f.nodes[parent.val].nodes[name.val],
                        get_node(f, uid, f.nodes[parent.val].nodes[name.val]))
    IN Then(filename(path), resolve_parent_of(f, uid, path))

Fs_new_node(f, uid, path, tag) ==
    LET Done(c) == Call(c.fs, IF c.res.ok THEN Ok(Unit) ELSE c.res)
        Then(parent, name) ==
            IF ~parent.ok THEN Call(f, parent)
            ELSE IF ~name.ok THEN Call(f, name)
            ELSE Done(create(f, uid, parent.val, name.val, tag))
    IN Then(resolve_parent_of_mut(f, uid, path), filename(path))

Fs_new_file(f, uid, path) == Fs_new_node(f, uid, path, "File")

Fs_new_dir(f, uid, path) == Fs_new_node(f, uid, path, "Dir")

Fs_exec(f, uid, path) ==
    LET Then(r) == IF ~r.ok THEN r ELSE check_if_allowed(f.nodes[r.val], uid, <<"Exec">>)
    IN Then(resolve_path(f, uid, path))

\* setPermissions without its check for control on the target.
Fs_set_perms_no_control(f, uid, path, perms) ==
    LET Then(r) ==
            IF ~r.ok THEN Call(f, r)
            ELSE Call([f EXCEPT !.nodes[r.val] = Node_set_perm(@, uid, perms)], Ok(Unit))
    IN Then(resolve_path_mut(f, uid, path))

\* The entry written is that of uid, the caller (node.set_perm(uid, perms)).
Fs_set_perms(f, uid, path, perms) ==
    LET Set(r, c) ==
            IF ~c.ok THEN Call(f, c)
            ELSE Call([f EXCEPT !.nodes[r.val] = Node_set_perm(@, uid, perms)], Ok(Unit))
        Then(r) ==
            IF ~r.ok THEN Call(f, r)
            ELSE Set(r, check_if_allowed(f.nodes[r.val], uid, <<"Control">>))
    IN Then(resolve_path_mut(f, uid, path))

NodeEntry(f, uid, name, id) ==
    [tag |-> f.nodes[id].kind, name |-> name,
     perms |-> Node_perms_for(f.nodes[id], uid), size |-> Node_size(f.nodes[id])]

\* The Vec of entries comes in the HashMap's iteration order, which is not
\* specified: the value is the set of the entries.
Fs_ls(f, uid, path) ==
    LET Then(r) ==
            IF ~r.ok THEN r
            ELSE IF f.nodes[r.val].kind # "Dir" THEN Err(NotADir)
            ELSE LET dir == f.nodes[r.val].nodes
                 IN IF \E n \in DOMAIN dir : dir[n] \notin DOMAIN f.nodes
                    THEN Err(NodeShouldExist)
                    ELSE Ok({NodeEntry(f, uid, n, dir[n]) :
                               n \in {m \in DOMAIN dir : get_node(f, uid, dir[m]).ok}})
    IN Then(resolve_path(f, uid, path))

-----------------------------------------------------------------------------
(* Inputs of the model *)

A_ID == ADMIN_ID + 1      \* the first user added after the administrator
B_ID == A_ID + 1          \* a user id that no AccessMap names

UserIds == {ADMIN_ID, A_ID, B_ID}

FsUids == {ADMIN_ID, A_ID}

Docs == <<"docs">>
Readme == <<"docs", "readme">>

FsPaths == {<<>>, Docs, Readme, <<"docs", "..">>}

Texts == {"hello", "bye"}

P(r, w, x, c) == [read |-> r, write |-> w, exec |-> x, control |-> c]
R == P(TRUE, FALSE, FALSE, FALSE)
RW == P(TRUE, TRUE, FALSE, FALSE)
RXC == P(TRUE, FALSE, TRUE, TRUE)
RWXC == P(TRUE, TRUE, TRUE, TRUE)

PermChoices == {PermsDefault, R, RWXC}

-----------------------------------------------------------------------------
(* The stores the program starts from.  The server starts from a fresh store
   or from the store of a deserialized image (bin/server.rs:92-99).  The
   images of the model hold the tree /docs/readme, built by the
   administrator's own calls, and AccessMap entries of user A written the way
   Node::set_perm writes them. *)

Tree ==
    LET d == Fs_new_dir(Fs_new, ADMIN_ID, Docs).fs
        n == Fs_new_file(d, ADMIN_ID, Readme).fs
    IN Fs_write(n, ADMIN_ID, Readme, "hello").fs

Grant(f, id, uid, perms) ==
    IF perms = PermsDefault THEN f
    ELSE [f EXCEPT !.nodes[id] = Node_set_perm(@, uid, perms)]

\* g[1], g[2], g[3]: what user A holds on /, /docs and /docs/readme.
TreeGrants ==
    { <<PermsDefault, PermsDefault, PermsDefault>>,
      <<R, R, R>>,
      <<R, R, RW>>,
      <<R, R, RXC>>,
      <<R, R, RWXC>>,
      <<RW, RW, PermsDefault>>,
      <<R, PermsDefault, RWXC>>,
      <<PermsDefault, RWXC, RWXC>>,
      <<RWXC, RWXC, R>> }

TreeImage(g) == Grant(Grant(Grant(Tree, 0, A_ID, g[1]), 1, A_ID, g[2]), 2, A_ID, g[3])

FsImages ==
    {Fs_new, Grant(Fs_new, ROOT_ID, A_ID, RW), Grant(Fs_new, ROOT_ID, A_ID, RWXC)}
    \cup {TreeImage(g) : g \in TreeGrants}

-----------------------------------------------------------------------------
(* users.rs: User, UserDb.  The password hash is the external argon2
   collaborator: hash_password and verify_password. *)

hash_password(pass) == <<"argon2", pass>>

verify_password(pass, hash) == hash = hash_password(pass)

User_new(id, name, pass) ==
    [id |-> id, name |-> name, pass |-> hash_password(pass), last_login_tries |-> 0]

UserDb_default == [id_ctr |-> ADMIN_ID, unames |-> [n \in {} |-> 0], users |-> [u \in {} |-> 0]]

UserDb_add_user(db, name, pass) ==
    IF name \in DOMAIN db.unames THEN [db |-> db, res |-> Err("user exists")]
    ELSE LET id == db.id_ctr
         IN [db |-> [id_ctr |-> id + 1,
                     unames |-> (name :> id) @@ db.unames,
                     users |-> (id :> User_new(id, name, pass)) @@ db.users],
             res |-> Ok(id)]

UserDb_new == UserDb_add_user(UserDb_default, "admin", "").db

-----------------------------------------------------------------------------
(* The node store driven through its own interface, Fs's public methods, the
   way the tests of fs.rs drive it: no session, no audit entry. *)

RetInit == [op |-> "boot", uid |-> ADMIN_ID, path |-> <<>>, arg |-> Unit, res |-> Ok(Unit)]

\* No request of the transport: the lock is free, nobody has held it.
ServerIdle == [lock |-> {}, order |-> <<>>, reqs |-> <<>>]

Ret(op, uid, path, arg, res) ==
    [op |-> op, uid |-> uid, path |-> path, arg |-> arg, res |-> res]

InitFs ==
    /\ fs \in FsImages
    /\ users = UserDb_new
    /\ last_access = [u \in {} |-> 0]
    /\ now = 0
    /\ log = <<>>
    /\ ret = RetInit
    /\ server = ServerIdle

FsRead(uid, path) ==
    /\ ret' = Ret("read", uid, path, Unit, Fs_read(fs, uid, path))
    /\ UNCHANGED <<fs, users, last_access, now, log, server>>

FsWrite(uid, path, data) ==
    \E c \in {Fs_write(fs, uid, path, data)} :
       /\ fs' = c.fs
       /\ ret' = Ret("write", uid, path, data, c.res)
       /\ UNCHANGED <<users, last_access, now, log, server>>

FsRm(uid, path) ==
    \E c \in {Fs_rm(fs, uid, path)} :
       /\ fs' = c.fs
       /\ ret' = Ret("rm", uid, path, Unit, c.res)
       /\ UNCHANGED <<users, last_access, now, log, server>>

FsNewFile(uid, path) ==
    \E c \in {Fs_new_file(fs, uid, path)} :
       /\ c.fs.node_counter <= MaxNodes
       /\ fs' = c.fs
       /\ ret' = Ret("new_file", uid, path, Unit, c.res)
       /\ UNCHANGED <<users, last_access, now, log, server>>

FsNewDir(uid, path) ==
    \E c \in {Fs_new_dir(fs, uid, path)} :
       /\ c.fs.node_counter <= MaxNodes
       /\ fs' = c.fs
       /\ ret' = Ret("new_dir", uid, path, Unit, c.res)
       /\ UNCHANGED <<users, last_access, now, log, server>>

FsExec(uid, path) ==
    /\ ret' = Ret("exec", uid, path, Unit, Fs_exec(fs, uid, path))
    /\ UNCHANGED <<fs, users, last_access, now, log, server>>

FsSetPerms(uid, path, perms) ==
    \E c \in {Fs_set_perms(fs, uid, path, perms)} :
       /\ fs' = c.fs
       /\ ret' = Ret("set_perms", uid, path, perms, c.res)
       /\ UNCHANGED <<users, last_access, now, log, server>>

FsLs(uid, path) ==
    /\ ret' = Ret("ls", uid, path, Unit, Fs_ls(fs, uid, path))
    /\ UNCHANGED <<fs, users, last_access, now, log, server>>

NextFs ==
    \E uid \in FsUids, path \in FsPaths :
        \/ FsRead(uid, path)
        \/ \E data \in Texts : FsWrite(uid, path, data)
        \/ FsRm(uid, path)
        \/ FsNewFile(uid, path)
        \/ FsNewDir(uid, path)
        \/ FsExec(uid, path)
        \/ \E perms \in PermChoices : FsSetPerms(uid, path, perms)
        \/ FsLs(uid, path)

SpecFs == InitFs /\ [][NextFs]_vars

-----------------------------------------------------------------------------
(* Vocabulary of the claims about the node store *)

\* The ids of the nodes a resolution of path fetches, in order, permissions
\* left aside: the root, then one node per segment, up to the first segment
\* that names nothing or is looked up in a file.
RECURSIVE WalkFrom(_, _, _)
WalkFrom(f, path, cur) ==
    IF path = <<>> THEN <<cur>>
    ELSE IF f.nodes[cur].kind # "Dir" \/ Head(path) \notin DOMAIN f.nodes[cur].nodes
         THEN <<cur>>
         ELSE <<cur>> \o WalkFrom(f, Tail(path), f.nodes[cur].nodes[Head(path)])

Walk(f, path) == WalkFrom(f, path, ROOT_ID)

\* The path names a node: every segment is bound.
Names(f, path) == Len(Walk(f, path)) = Len(path) + 1

Target(f, path) == Walk(f, path)[Len(path) + 1]

HoldsOn(f, uid, id, op) ==
    uid = ADMIN_ID \/ PermsHas(AccessMap_get(f.nodes[id].perms, uid), op)

\* uid lacks read on a node that resolving path fetches.
LacksReadOn(f, uid, path) ==
    \E i \in 1..Len(Walk(f, path)) : ~HoldsOn(f, uid, Walk(f, path)[i], "Read")

Children(node) == DOMAIN node.nodes \ {".", ".."}

-----------------------------------------------------------------------------
(* C2: after a successful write of text t to a path, a read of that path by
   the administrator returns exactly t, the text of the last write and never
   a concatenation with what the file held; a file the administrator has
   just created can be written by the administrator and then reads back the
   text; and a file's content changes in no step other than a successful
   write. *)
C2_ReadsLastWrite ==
    /\ ret.op = "write" /\ ret.res.ok
          => Fs_read(fs, ADMIN_ID, ret.path) = Ok(ret.arg)
    /\ ret.op = "new_file" /\ ret.res.ok /\ ret.uid = ADMIN_ID
          => \A t \in Texts :
                LET c == Fs_write(fs, ADMIN_ID, ret.path, t)
                IN c.res.ok /\ Fs_read(c.fs, ADMIN_ID, ret.path) = Ok(t)

C2_ContentKept ==
    \A id \in DOMAIN fs.nodes \cap DOMAIN fs'.nodes :
        fs'.nodes[id].content # fs.nodes[id].content
            => ret'.op = "write" /\ ret'.res.ok /\ Target(fs, ret'.path) = id

\* C2: a read returns the text of the last successful write, and a file keeps
\* its content until it is written again or removed.
C2_Overwrite == []C2_ReadsLastWrite /\ [][C2_ContentKept]_vars

\* "bye" was written over the "hello" of /docs/readme.
C2_Witness ==
    /\ ret.op = "write" /\ ret.res.ok /\ ret.path = Readme /\ ret.arg = "bye"
    /\ 2 \in DOMAIN fs.nodes /\ fs.nodes[2].content = "bye"

-----------------------------------------------------------------------------
(* C3: no call on the node store made with the administrator's id fails with
   PermissionDenied, whatever the AccessMaps hold. *)
C3_AdminBypass ==
    /\ ret.uid = ADMIN_ID => ret.res.err # PermissionDenied
    /\ \A path \in FsPaths :
          /\ Fs_read(fs, ADMIN_ID, path).err # PermissionDenied
          /\ Fs_exec(fs, ADMIN_ID, path).err # PermissionDenied
          /\ Fs_ls(fs, ADMIN_ID, path).err # PermissionDenied
          /\ Fs_rm(fs, ADMIN_ID, path).res.err # PermissionDenied
          /\ Fs_new_file(fs, ADMIN_ID, path).res.err # PermissionDenied
          /\ Fs_new_dir(fs, ADMIN_ID, path).res.err # PermissionDenied
          /\ \A t \in Texts : Fs_write(fs, ADMIN_ID, path, t).res.err # PermissionDenied
          /\ \A q \in PermChoices :
                Fs_set_perms(fs, ADMIN_ID, path, q).res.err # PermissionDenied

\* The administrator's setPermissions succeeded on a node below the root whose
\* AccessMap names nobody, in a store where user A holds write on the root.
C3_Witness ==
    /\ ret.op = "set_perms" /\ ret.uid = ADMIN_ID /\ ret.res.ok
    /\ Names(fs, ret.path)
    /\ fs.nodes[Target(fs, ret.path)].perms = AccessMap_new
    /\ Target(fs, ret.path) # ROOT_ID
    /\ AccessMap_get(fs.nodes[ROOT_ID].perms, A_ID).write

-----------------------------------------------------------------------------
(* C4, as claimed: whenever a caller other than the administrator lacks read
   on a node that resolving the path fetches (the root, a directory on the
   way, the node the path names), every operation on the path fails with
   PermissionDenied. *)
C4_DeniedByEveryOperation ==
    [][ret'.uid # ADMIN_ID /\ LacksReadOn(fs, ret'.uid, ret'.path)
          => ret'.res.err = PermissionDenied]_vars

(* C4, amended: under that condition every operation fails and leaves the
   store as it was; read, write, exec, setPermissions and list fail with
   PermissionDenied; remove fails with PermissionDenied when the path ends in
   a name (a path that does not is refused before anything is fetched);
   newFile and newDirectory fail with PermissionDenied when the unreadable
   node is fetched in resolving the parent path (the node the path itself
   names is never fetched by them). *)
C4_Refused ==
    LET u == ret'.uid
        p == ret'.path
        op == ret'.op
    IN u # ADMIN_ID =>
          /\ LacksReadOn(fs, u, p) => ~ret'.res.ok /\ fs' = fs
          /\ op \in {"read", "write", "exec", "set_perms", "ls"} /\ LacksReadOn(fs, u, p)
                => ret'.res.err = PermissionDenied
          /\ op = "rm" /\ filename(p).ok /\ LacksReadOn(fs, u, p)
                => ret'.res.err = PermissionDenied
          /\ op \in {"new_file", "new_dir"} /\ LacksReadOn(fs, u, parent_of(p))
                => ret'.res.err = PermissionDenied

\* C4, amended: every step of the node store refuses in this way.
C4_ReadCheckedAtEveryLevel == [][C4_Refused]_vars

\* User A, who holds every capability on /docs/readme and read on the root
\* but nothing on /docs, was refused the read of /docs/readme.
C4_Witness ==
    /\ ret.op = "read" /\ ret.uid = A_ID /\ ret.path = Readme
    /\ ret.res.err = PermissionDenied
    /\ Names(fs, Readme)
    /\ HoldsOn(fs, A_ID, ROOT_ID, "Read")
    /\ ~HoldsOn(fs, A_ID, Target(fs, Docs), "Read")
    /\ AccessMap_get(fs.nodes[Target(fs, Readme)].perms, A_ID) = RWXC

-----------------------------------------------------------------------------
\* A path that names a directory with, or without, a child other than "."
\* and "..".
NonEmptyDir(f, path) ==
    /\ Names(f, path)
    /\ f.nodes[Target(f, path)].kind = "Dir"
    /\ Children(f.nodes[Target(f, path)]) # {}

EmptyDir(f, path) ==
    /\ Names(f, path)
    /\ f.nodes[Target(f, path)].kind = "Dir"
    /\ Children(f.nodes[Target(f, path)]) = {}

(* C6, as claimed: remove on a directory that has a child other than "." and
   ".." always fails with Conflict and leaves the store unchanged. *)
C6_AlwaysConflict ==
    [][ret'.op = "rm" /\ NonEmptyDir(fs, ret'.path)
          => ret'.res.err = Conflict /\ fs' = fs]_vars

(* C6, amended: remove on a path that ends in a name and names a directory
   with a child other than "." and ".." fails and leaves the store unchanged:
   with Conflict when the caller is the administrator or holds read on every
   node the resolution fetches, with PermissionDenied otherwise.  When the
   directory has no such child, remove by a caller who holds read on those
   nodes and write on the parent succeeds, and the path then names nothing. *)
C6_Remove ==
    LET u == ret'.uid
        p == ret'.path
    IN ret'.op = "rm" /\ filename(p).ok =>
          /\ NonEmptyDir(fs, p) =>
                /\ fs' = fs
                /\ ret'.res.err = IF LacksReadOn(fs, u, p) THEN PermissionDenied
                                  ELSE Conflict
          /\ /\ EmptyDir(fs, p)
             /\ ~LacksReadOn(fs, u, p)
             /\ HoldsOn(fs, u, Walk(fs, p)[Len(p)], "Write")
             => /\ ret'.res.ok
                /\ ~Names(fs', p)
                /\ resolve_path(fs', ADMIN_ID, p) = Err(NotFound)

\* C6, amended: every remove behaves in this way.
C6_RemoveDirectory == [][C6_Remove]_vars

\* /docs was removed after /docs/readme, its only child, had been removed.
C6_Witness ==
    /\ ret.op = "rm" /\ ret.res.ok /\ ret.path = Docs
    /\ fs.node_counter = 3
    /\ DOMAIN fs.nodes = {ROOT_ID}

-----------------------------------------------------------------------------
(* The capability check as a function: the inputs are drawn, the check is
   applied. *)

MaxOps == 2        \* a request names at most MaxOps capabilities

RECURSIVE SeqsUpTo(_, _)
SeqsUpTo(S, n) ==
    IF n = 0 THEN {<<>>}
    ELSE SeqsUpTo(S, n - 1) \cup
         {Append(q, x) : q \in {r \in SeqsUpTo(S, n - 1) : Len(r) = n - 1}, x \in S}

AccessMaps == {AccessMap_new} \cup {AccessMap_set(AccessMap_new, A_ID, q) : q \in Perms}

InitPerms ==
    /\ fs = Fs_new
    /\ users = UserDb_new
    /\ last_access = [u \in {} |-> 0]
    /\ now = 0
    /\ log = <<>>
    /\ \E acl \in AccessMaps, uid \in UserIds, ops \in SeqsUpTo(Op, MaxOps) :
          ret = Ret("request", uid, <<>>, [acl |-> acl, ops |-> ops], Ok(Unit))
    /\ server = ServerIdle

Allows ==
    /\ ret.op = "request"
    /\ ret' = [ret EXCEPT !.op = "allows",
                          !.res = Ok(allows(ret.arg.acl, ret.uid, ret.arg.ops))]
    /\ UNCHANGED <<fs, users, last_access, now, log, server>>

NextPerms == Allows

SpecPerms == InitPerms /\ [][NextPerms]_vars

(* C5: for a user other than the administrator the check succeeds only if
   every requested capability is in the Perms stored for the user (none for a
   user the map does not name).  With only read granted, a request for write
   fails, a request for read and write fails, a request for read succeeds. *)
C5_AllOf ==
    ret.op = "allows" =>
        /\ ret.uid # ADMIN_ID /\ ret.res.val
              => \A i \in 1..Len(ret.arg.ops) :
                    PermsHas(AccessMap_get(ret.arg.acl, ret.uid), ret.arg.ops[i])
        /\ ret.uid = A_ID /\ ret.arg.acl = (A_ID :> R) =>
              /\ ret.arg.ops = <<"Write">> => ~ret.res.val
              /\ ret.arg.ops \in {<<"Read", "Write">>, <<"Write", "Read">>} => ~ret.res.val
              /\ ret.arg.ops = <<"Read">> => ret.res.val

\* Read and write were requested of a map that grants the user read alone,
\* and refused.
C5_Witness ==
    /\ ret.op = "allows" /\ ret.uid = A_ID
    /\ ret.arg.acl = (A_ID :> R)
    /\ ret.arg.ops = <<"Read", "Write">>
    /\ ~ret.res.val

-----------------------------------------------------------------------------
(* The user directory (users.rs). *)

WrongUname == "wrong username or password"
AccountBlocked == "account if blocked"
AccountIsBlocked == "account is blocked"
UserNotFound == "user not found"

\* A lockout that is never in force.
User_is_blocked_never(user) == FALSE

\* A lockout from which the administrator is exempt.
User_is_blocked_but_admin(user) ==
    user.id # ADMIN_ID /\ user.last_login_tries >= MAX_LOGIN_TRIES

User_is_blocked(user) == user.last_login_tries >= MAX_LOGIN_TRIES

\* A success that leaves the failure counter as it is.
User_reset_login_tries_never(user) == user

User_reset_login_tries(user) == [user EXCEPT !.last_login_tries = 0]

User_inc_login_tries(user) ==
    LET inc == [user EXCEPT !.last_login_tries = @ + 1]
    IN [user |-> inc,
        res |-> IF inc.last_login_tries >= MAX_LOGIN_TRIES THEN Err(AccountIsBlocked)
                ELSE Ok(Unit)]

User_verify_pass(user, pass) ==
    LET Then(inc) == [user |-> inc.user,
                      res |-> IF inc.res.ok THEN Err(WrongUname) ELSE inc.res]
    IN IF User_is_blocked(user) THEN [user |-> user, res |-> Err(AccountBlocked)]
       ELSE IF verify_password(pass, user.pass)
            THEN [user |-> User_reset_login_tries(user), res |-> Ok(Unit)]
            ELSE Then(User_inc_login_tries(user))

User_change_pass(user, pass) == [user EXCEPT !.pass = hash_password(pass)]

DbCall(db, res) == [db |-> db, res |-> res]

UserDb_login_with_id(db, uid, pass) ==
    LET Then(v) == DbCall([db EXCEPT !.users[uid] = v.user], v.res)
    IN IF uid \notin DOMAIN db.users THEN DbCall(db, Err(WrongUname))
       ELSE Then(User_verify_pass(db.users[uid], pass))

UserDb_login(db, name, pass) ==
    LET Then(uid, c) == DbCall(c.db, IF c.res.ok THEN Ok(uid) ELSE c.res)
    IN IF name \notin DOMAIN db.unames THEN DbCall(db, Err(WrongUname))
       ELSE Then(db.unames[name], UserDb_login_with_id(db, db.unames[name], pass))

\* A change of password that does not verify the old one.
UserDb_change_pass_unverified(db, uid, old_pass, new_pass) ==
    DbCall([db EXCEPT !.users[uid] = User_change_pass(@, new_pass)], Ok(Unit))

UserDb_change_pass(db, uid, old_pass, new_pass) ==
    LET Then(c) ==
            IF ~c.res.ok THEN c
            ELSE DbCall([c.db EXCEPT !.users[uid] = User_change_pass(@, new_pass)],
                        Ok(Unit))
    IN Then(UserDb_login_with_id(db, uid, old_pass))

UserDb_id_of(db, username) ==
    IF username \in DOMAIN db.unames THEN Ok(db.unames[username]) ELSE Err(UserNotFound)

UserDb_unblock(db, username) ==
    LET Then(id) ==
            IF ~id.ok THEN DbCall(db, id)
            ELSE DbCall([db EXCEPT !.users[id.val] = User_reset_login_tries(@)], Ok(Unit))
    IN Then(UserDb_id_of(db, username))

-----------------------------------------------------------------------------
(* The audit log (log.rs).  An entry keeps its level, its user and its
   message; the wall-clock stamp, which nothing reads back, is left out.  An
   absent user is the empty set, a present one a singleton. *)

Log_new(msg) == [level |-> "Info", uid |-> {}, msg |-> msg]

Log_new_with_uid(uid, msg) == [level |-> "Info", uid |-> {uid}, msg |-> msg]

Logger_default == <<>>

Logger_log(logger, entry) == Append(logger, entry)

-----------------------------------------------------------------------------
(* The dispatcher (lib.rs). *)

AuthenticationRequired == "inactivity timeout: authentication required"
OnlyAdminUsers == "only admin can manage users"
OnlyAdminUnblock == "only admin can unblock the user"
OnlyAdminLogs == "only admin can view the logs"

Action_Read(path) == [tag |-> "Read", path |-> path]
Action_Write(path, data) == [tag |-> "Write", path |-> path, data |-> data]
Action_Rm(path) == [tag |-> "Rm", path |-> path]
Action_NewFile(path) == [tag |-> "NewFile", path |-> path]
Action_NewDir(path) == [tag |-> "NewDir", path |-> path]
Action_Exec(path) == [tag |-> "Exec", path |-> path]
Action_SetPerms(path, username, perms) ==
    [tag |-> "SetPerms", path |-> path, username |-> username, perms |-> perms]
Action_Ls(path) == [tag |-> "Ls", path |-> path]
Action_AddUser(username) == [tag |-> "AddUser", username |-> username]
Action_ChangePassword(old, new) == [tag |-> "ChangePassword", old |-> old, new |-> new]
Action_Unblock(username) == [tag |-> "Unblock", username |-> username]
Action_Logs == [tag |-> "Logs"]

\* Display for Action: the text the audit entry carries.  Write shows its
\* path alone, ChangePassword nothing of its passwords.
Action_Display(cmd) ==
    CASE cmd.tag = "Read" -> <<"read", cmd.path>>
      [] cmd.tag = "Write" -> <<"write", cmd.path>>
      [] cmd.tag = "Rm" -> <<"rm", cmd.path>>
      [] cmd.tag = "NewFile" -> <<"new-file", cmd.path>>
      [] cmd.tag = "NewDir" -> <<"new-dir", cmd.path>>
      [] cmd.tag = "Exec" -> <<"exec", cmd.path>>
      [] cmd.tag = "SetPerms" -> <<"set-perms", cmd.path, cmd.username, cmd.perms>>
      [] cmd.tag = "Ls" -> <<"ls", cmd.path>>
      [] cmd.tag = "AddUser" -> <<"add-user", cmd.username>>
      [] cmd.tag = "ChangePassword" -> <<"change-pass">>
      [] cmd.tag = "Unblock" -> <<"unblock", cmd.username>>
      [] cmd.tag = "Logs" -> <<"logs">>

System_new == [fs |-> Fs_new, users |-> UserDb_new, last_access |-> [u \in {} |-> 0]]

SysCall(sys, logger, res) == [sys |-> sys, log |-> logger, res |-> res]

\* A login that keeps the time already recorded for its user.
System_login_keeps_first(sys, logger, t, name, pass) ==
    LET Then(logged, c) ==
            IF ~c.res.ok THEN SysCall([sys EXCEPT !.users = c.db], logged, c.res)
            ELSE SysCall([sys EXCEPT !.users = c.db,
                                     !.last_access = @ @@ (c.res.val :> t)],
                         logged, c.res)
    IN Then(Logger_log(logger, Log_new(<<"new login with", name>>)),
            UserDb_login(sys.users, name, pass))

System_login(sys, logger, t, name, pass) ==
    LET Then(logged, c) ==
            IF ~c.res.ok THEN SysCall([sys EXCEPT !.users = c.db], logged, c.res)
            ELSE SysCall([sys EXCEPT !.users = c.db,
                                     !.last_access = (c.res.val :> t) @@ @],
                         logged, c.res)
    IN Then(Logger_log(logger, Log_new(<<"new login with", name>>)),
            UserDb_login(sys.users, name, pass))

System_add_user(sys, uid, name) ==
    LET Then(c) == [sys |-> [sys EXCEPT !.users = c.db], res |-> c.res]
    IN IF uid = ADMIN_ID THEN Then(UserDb_add_user(sys.users, name, ""))
       ELSE [sys |-> sys, res |-> Err(OnlyAdminUsers)]

\* An unblock that any caller may make.
System_unblock_by_anyone(sys, uid, username) ==
    LET Then(c) == [sys |-> [sys EXCEPT !.users = c.db], res |-> c.res]
    IN Then(UserDb_unblock(sys.users, username))

System_unblock(sys, uid, username) ==
    LET Then(c) == [sys |-> [sys EXCEPT !.users = c.db], res |-> c.res]
    IN IF uid # ADMIN_ID THEN [sys |-> sys, res |-> Err(OnlyAdminUnblock)]
       ELSE Then(UserDb_unblock(sys.users, username))

System_logs(logger, uid) ==
    IF uid = ADMIN_ID THEN Ok(logger) ELSE Err(OnlyAdminLogs)

\* The match of System::exec.  Fs::set_perms takes the caller, the path and
\* the Perms: the user the name resolves to has no parameter to arrive in.
Dispatch(sys, logger, uid, cmd) ==
    LET InFs(c) == [sys |-> [sys EXCEPT !.fs = c.fs],
                    res |-> IF c.res.ok THEN Ok(Unit) ELSE c.res]
        InUsers(c) == [sys |-> [sys EXCEPT !.users = c.db], res |-> c.res]
        AsOk(c) == [sys |-> c.sys, res |-> IF c.res.ok THEN Ok(Unit) ELSE c.res]
        Same(res) == [sys |-> sys, res |-> res]
    IN CASE cmd.tag = "Read" -> Same(Fs_read(sys.fs, uid, cmd.path))
         [] cmd.tag = "Write" -> InFs(Fs_write(sys.fs, uid, cmd.path, cmd.data))
         [] cmd.tag = "Rm" -> InFs(Fs_rm(sys.fs, uid, cmd.path))
         [] cmd.tag = "NewFile" -> InFs(Fs_new_file(sys.fs, uid, cmd.path))
         [] cmd.tag = "NewDir" -> InFs(Fs_new_dir(sys.fs, uid, cmd.path))
         [] cmd.tag = "Exec" -> Same(Fs_exec(sys.fs, uid, cmd.path))
         [] cmd.tag = "SetPerms" -> InFs(Fs_set_perms(sys.fs, uid, cmd.path, cmd.perms))
         [] cmd.tag = "Ls" -> Same(Fs_ls(sys.fs, uid, cmd.path))
         [] cmd.tag = "AddUser" -> AsOk(System_add_user(sys, uid, cmd.username))
         [] cmd.tag = "ChangePassword" ->
              InUsers(UserDb_change_pass(sys.users, uid, cmd.old, cmd.new))
         [] cmd.tag = "Unblock" -> System_unblock(sys, uid, cmd.username)
         [] cmd.tag = "Logs" -> Same(System_logs(logger, uid))

\* A session gate that closes when the window is reached, not when it is passed.
SessionLive_before_timeout(sys, t, uid) ==
    uid \in DOMAIN sys.last_access /\ t - sys.last_access[uid] < INACTIVITY_TIMEOUT

\* A session gate that a blocked account does not pass.
SessionLive_unless_blocked(sys, t, uid) ==
    /\ uid \in DOMAIN sys.last_access
    /\ ~(t - sys.last_access[uid] > INACTIVITY_TIMEOUT)
    /\ uid \in DOMAIN sys.users.users => ~User_is_blocked(sys.users.users[uid])

\* The gate of System::exec: a login time is recorded and no more than
\* INACTIVITY_TIMEOUT has elapsed since.
SessionLive(sys, t, uid) ==
    IF uid \in DOMAIN sys.last_access
    THEN ~(t - sys.last_access[uid] > INACTIVITY_TIMEOUT)
    ELSE FALSE

\* SetPerms resolves its username with `?`: an unknown name returns before the
\* audit entry is written.
System_exec(sys, logger, t, uid, cmd) ==
    LET Audited(c) ==
            SysCall(c.sys,
                    Logger_log(logger,
                               Log_new_with_uid(uid,
                                   <<"action", Action_Display(cmd),
                                     IF c.res.ok THEN "Ok(())" ELSE c.res.err>>)),
                    c.res)
    IN IF ~SessionLive(sys, t, uid) THEN SysCall(sys, logger, Err(AuthenticationRequired))
       ELSE IF cmd.tag = "SetPerms" /\ ~UserDb_id_of(sys.users, cmd.username).ok
            THEN SysCall(sys, logger, UserDb_id_of(sys.users, cmd.username))
            ELSE Audited(Dispatch(sys, logger, uid, cmd))

\* pack takes the logger out of the process and drops the sessions; unpack
\* installs the image's logger and starts with no session.
System_pack(sys, logger) == [fs |-> sys.fs, users |-> sys.users, logger |-> logger]

\* An unpack that leaves the image's logger out.
SystemImage_unpack_without_logger(image) ==
    [sys |-> [fs |-> image.fs, users |-> image.users, last_access |-> [u \in {} |-> 0]],
     log |-> Logger_default]

SystemImage_unpack(image) ==
    [sys |-> [fs |-> image.fs, users |-> image.users, last_access |-> [u \in {} |-> 0]],
     log |-> image.logger]

take_logger(logger) == [taken |-> logger, log |-> Logger_default]

-----------------------------------------------------------------------------
(* The system served: login and exec under the one lock of the server, the
   clock, the restart from the image written at shutdown. *)

TickStep == INACTIVITY_TIMEOUT

UsersWithA == UserDb_add_user(UserDb_new, "A", "").db

\* Images a server boots from (server.rs): the tree of the end-to-end
\* scenario with user A added, A holding nothing, or read on the way to
\* /docs/readme and read, exec and control on it.
BootImages ==
    {[fs |-> TreeImage(<<PermsDefault, PermsDefault, PermsDefault>>),
      users |-> UsersWithA, logger |-> Logger_default],
     [fs |-> TreeImage(<<R, R, RXC>>),
      users |-> UsersWithA, logger |-> Logger_default]}

LoginInputs == {<<"admin", "">>, <<"A", "">>, <<"A", "pw">>, <<"ghost", "pw">>}

Actions ==
    {Action_Read(Readme), Action_Write(Readme, "bye"), Action_Rm(Readme),
     Action_NewFile(Readme), Action_NewDir(Docs), Action_Exec(Readme),
     Action_Ls(Docs), Action_AddUser("A"), Action_ChangePassword("", ""),
     Action_Unblock("A"), Action_Unblock("ghost"), Action_Logs}
    \cup {Action_SetPerms(Readme, name, R) : name \in {"A", "admin", "ghost"}}

SysUids == {ADMIN_ID, A_ID}

NoUid == ADMIN_ID - 1

Sys == [fs |-> fs, users |-> users, last_access |-> last_access]

Init ==
    /\ \E boot \in {SysCall(System_new, Logger_default, Ok(Unit))}
                   \cup {SystemImage_unpack(image) : image \in BootImages} :
          /\ fs = boot.sys.fs
          /\ users = boot.sys.users
          /\ last_access = boot.sys.last_access
          /\ log = boot.log
    /\ now = 0
    /\ ret = RetInit
    /\ server = ServerIdle

Login(name, pass) ==
    \E c \in {System_login(Sys, log, now, name, pass)} :
       /\ Len(c.log) <= MaxLog
       /\ fs' = c.sys.fs
       /\ users' = c.sys.users
       /\ last_access' = c.sys.last_access
       /\ log' = c.log
       /\ ret' = Ret("login", NoUid, <<>>, Unit, c.res)
       /\ UNCHANGED <<now, server>>

Exec(uid, cmd) ==
    \E c \in {System_exec(Sys, log, now, uid, cmd)} :
       /\ Len(c.log) <= MaxLog
       /\ c.sys.fs.node_counter <= MaxNodes
       /\ c.sys.users.id_ctr <= MaxUsers
       /\ fs' = c.sys.fs
       /\ users' = c.sys.users
       /\ last_access' = c.sys.last_access
       /\ log' = c.log
       /\ ret' = Ret("exec", uid, <<>>, Unit, c.res)
       /\ UNCHANGED <<now, server>>

Tick ==
    /\ now < MaxTicks * TickStep
    /\ now' = now + TickStep
    /\ UNCHANGED <<fs, users, last_access, log, ret, server>>

Restart ==
    \E boot \in {SystemImage_unpack(System_pack(Sys, take_logger(log).taken))} :
       /\ fs' = boot.sys.fs
       /\ users' = boot.sys.users
       /\ last_access' = boot.sys.last_access
       /\ log' = boot.log
       /\ UNCHANGED <<now, ret, server>>

\* The host takes the audit log out of the process, as pack does.
TakeLogger ==
    /\ log # Logger_default
    /\ log' = take_logger(log).log
    /\ UNCHANGED <<fs, users, last_access, now, ret, server>>

Next ==
    \/ \E in \in LoginInputs : Login(in[1], in[2])
    \/ \E uid \in SysUids, cmd \in Actions : Exec(uid, cmd)
    \/ Tick
    \/ Restart
    \/ TakeLogger

Spec == Init /\ [][Next]_vars

-----------------------------------------------------------------------------
(* Vocabulary of the claims on the system served. *)

Passes == {"", "pw"}

Appended(entry) == log' = Append(log, entry)

Audit(uid, cmd, outcome) == Log_new_with_uid(uid, <<"action", Action_Display(cmd), outcome>>)

Blocked(db, uid) == db.users[uid].last_login_tries >= MAX_LOGIN_TRIES

NoSessions == [u \in {} |-> 0]

InAnyAccessMap(f, uid) == \E id \in DOMAIN f.nodes : uid \in DOMAIN f.nodes[id].perms

-----------------------------------------------------------------------------
(* C1: in the end-to-end scenario (/docs/readme holds "hello", user A added,
   logged in and granted nothing) A's read of /docs/readme fails with
   PermissionDenied, and once the administrator's
   SetPermissions(/docs/readme, "A", {read}) has succeeded, no other grant
   made, A's read of /docs/readme returns "hello". *)
C1_EndToEnd ==
    [][(/\ Appended(Audit(ADMIN_ID, Action_SetPerms(Readme, "A", R), "Ok(())"))
        /\ "A" \in DOMAIN users.unames
        /\ ~InAnyAccessMap(fs, users.unames["A"])
        /\ Fs_read(fs, ADMIN_ID, Readme) = Ok("hello")
        /\ SessionLive(Sys, now, users.unames["A"]))
       => LET a == users.unames["A"]
              sys_after == [fs |-> fs', users |-> users', last_access |-> last_access']
          IN /\ System_exec(Sys, log, now, a, Action_Read(Readme)).res
                   = Err(PermissionDenied)
             /\ System_exec(sys_after, log', now', a, Action_Read(Readme)).res
                   = Ok("hello")]_vars

-----------------------------------------------------------------------------
(* C7: the lockout is sticky.  The failure counter of an account counts its
   consecutive wrong-password attempts, the third blocks the account; while
   the account is blocked every login to it fails with the blocked-account
   error, the correct password included, whatever the time, and changes
   nothing but the audit log; no step other than the administrator's
   successful Unblock of that account (time passing and pack/unpack
   included) ends the block; after that Unblock the counter is zero and a
   login with the correct password succeeds. *)
C7_Login ==
    \A name \in DOMAIN users.unames, pass \in Passes :
        LET uid == users.unames[name]
            user == users.users[uid]
            c == System_login(Sys, log, now, name, pass)
        IN /\ Blocked(users, uid)
                => c.res = Err(AccountBlocked) /\ c.sys = Sys
           /\ ~Blocked(users, uid) /\ ~verify_password(pass, user.pass)
                => /\ ~c.res.ok
                   /\ c.sys.users.users[uid].last_login_tries = user.last_login_tries + 1
           /\ ~Blocked(users, uid) /\ verify_password(pass, user.pass)
                => /\ c.res = Ok(uid)
                   /\ c.sys.users.users[uid].last_login_tries = 0

C7_Step ==
    \A name \in DOMAIN users.unames :
        LET uid == users.unames[name]
            unblocked == Appended(Audit(ADMIN_ID, Action_Unblock(name), "Ok(())"))
            sys_after == [fs |-> fs', users |-> users', last_access |-> last_access']
        IN /\ Blocked(users, uid) /\ ~unblocked => Blocked(users', uid)
           /\ unblocked =>
                /\ users'.users[uid].last_login_tries = 0
                /\ \A pass \in Passes :
                      verify_password(pass, users'.users[uid].pass)
                         => System_login(sys_after, log', now', name, pass).res = Ok(uid)

\* C7: logins behave in this way in every state, and every step keeps a
\* block that the administrator does not lift.
C7_StickyLockout == []C7_Login /\ [][C7_Step]_vars

\* A login to the blocked account of A was refused as blocked after a
\* restart, the whole of the modelled time gone by.
C7_Witness ==
    /\ A_ID \in DOMAIN users.users
    /\ Blocked(users, A_ID)
    /\ ret.op = "login" /\ ret.res = Err(AccountBlocked)
    /\ now = MaxTicks * TickStep
    /\ last_access = NoSessions

-----------------------------------------------------------------------------
(* C8: a failed login to an account that is not blocked before the attempt
   returns the error a login with an unknown username returns, "wrong
   username or password", on the first, the second and the third consecutive
   wrong-password attempt alike. *)
C8_GenericError ==
    [][\A name \in DOMAIN users.unames :
          (/\ Appended(Log_new(<<"new login with", name>>))
           /\ ret'.op = "login"
           /\ ~Blocked(users, users.unames[name])
           /\ ~ret'.res.ok)
          => /\ ret'.res = Err(WrongUname)
             /\ ret'.res = System_login(Sys, log, now, "ghost", "pw").res]_vars

-----------------------------------------------------------------------------
(* C9: the session expires at an absolute time.  An action passes the session
   gate exactly when a login time is recorded for its user and no more than
   INACTIVITY_TIMEOUT (60 s) has gone by since; an action refused at the gate
   is answered AuthenticationRequired and changes neither the graph, nor the
   user directory, nor the sessions, nor the audit log; no action changes a
   recorded login time.  A login time is recorded by a successful login, as
   the time of that login, and dropped by unpack; nothing else changes it. *)
C9_Gate ==
    \A uid \in SysUids, cmd \in Actions :
        LET c == System_exec(Sys, log, now, uid, cmd)
            within == /\ uid \in DOMAIN last_access
                      /\ now - last_access[uid] <= INACTIVITY_TIMEOUT
        IN /\ c.sys.last_access = last_access
           /\ within => c.res # Err(AuthenticationRequired)
           /\ ~within => /\ c.res = Err(AuthenticationRequired)
                         /\ c.sys = Sys
                         /\ c.log = log

C9_LoginTime ==
    \/ last_access' = last_access
    \/ last_access' = NoSessions
    \/ \E uid \in UserIds :
          /\ ret'.op = "login" /\ ret'.res = Ok(uid)
          /\ last_access' = (uid :> now) @@ last_access

\* C9: the gate behaves in this way in every state, and login times change
\* only in this way.
C9_AbsoluteExpiry == []C9_Gate /\ [][C9_LoginTime]_vars

\* User A was refused at the gate, more than the timeout after the login,
\* the last audited action being A's own, made inside the window.
C9_Witness ==
    /\ ret.op = "exec" /\ ret.uid = A_ID
    /\ ret.res = Err(AuthenticationRequired)
    /\ A_ID \in DOMAIN last_access
    /\ now - last_access[A_ID] > INACTIVITY_TIMEOUT
    /\ log # <<>>
    /\ log[Len(log)].uid = {A_ID}

-----------------------------------------------------------------------------
(* C10: a successful setPermissions(uid, targetUid, path, perms) overwrites
   the entry of targetUid in the AccessMap of the node the path names, and
   that entry alone: the node's Perms for targetUid are then perms, every
   other entry of the node, every other node, every content and directory
   entry are as before; with the administrator as target nothing changes;
   the administrator id is a key of no AccessMap. *)
C10_Entry(uid, name, perms) ==
    LET target == users.unames[name]
        id == Target(fs, Readme)
        before == fs.nodes[id].perms
        after == fs'.nodes[id].perms
    IN /\ DOMAIN fs'.nodes = DOMAIN fs.nodes
       /\ \A other \in DOMAIN fs.nodes \ {id} : fs'.nodes[other] = fs.nodes[other]
       /\ fs'.nodes[id] = [fs.nodes[id] EXCEPT !.perms = after]
       /\ target # ADMIN_ID =>
             /\ target \in DOMAIN after /\ after[target] = perms
             /\ \A v \in UserIds \ {target} :
                   /\ v \in DOMAIN after <=> v \in DOMAIN before
                   /\ v \in DOMAIN before => after[v] = before[v]
       /\ target = ADMIN_ID => fs' = fs
       /\ \A n \in DOMAIN fs'.nodes : ADMIN_ID \notin DOMAIN fs'.nodes[n].perms

\* C10: every successful setPermissions, by the administrator or by user A,
\* naming any user of the directory, writes in this way.
C10_OverwritesTargetEntry ==
    [][\A uid \in SysUids, name \in DOMAIN users.unames :
          Appended(Audit(uid, Action_SetPerms(Readme, name, R), "Ok(())"))
             => C10_Entry(uid, name, R)]_vars

-----------------------------------------------------------------------------
\* The AccessMaps of the nodes of f that are still nodes of g.
SurvivingPerms(f, g) ==
    [id \in DOMAIN f.nodes \cap DOMAIN g.nodes |-> f.nodes[id].perms]

SamePerms(f, g) == SurvivingPerms(f, g) = SurvivingPerms(g, f)

\* uid is the administrator, or holds read on every node the resolution of
\* path fetches and read, write and control on the node the path names.
MaySetPerms(f, uid, path) ==
    \/ uid = ADMIN_ID
    \/ /\ ~LacksReadOn(f, uid, path)
       /\ \A op \in {"Read", "Write", "Control"} : HoldsOn(f, uid, Target(f, path), op)

C11_SetPermsStep ==
    /\ ~SamePerms(fs, fs') =>
          /\ ret'.op = "set_perms" /\ ret'.res.ok
          /\ Names(fs, ret'.path)
          /\ MaySetPerms(fs, ret'.uid, ret'.path)
          /\ \A id \in DOMAIN fs.nodes \ {Target(fs, ret'.path)} :
                id \in DOMAIN fs'.nodes /\ fs'.nodes[id] = fs.nodes[id]
    /\ ret'.op = "set_perms" /\ Names(fs, ret'.path) =>
          IF MaySetPerms(fs, ret'.uid, ret'.path)
          THEN ret'.res.ok
          ELSE ret'.res.err = PermissionDenied /\ fs' = fs

C11_OtherActions ==
    /\ \A uid \in UserIds, cmd \in Actions :
          cmd.tag # "SetPerms" => SamePerms(fs, Dispatch(Sys, log, uid, cmd).sys.fs)
    /\ \A in \in LoginInputs :
          System_login(Sys, log, now, in[1], in[2]).sys.fs = fs

(* C11: the AccessMap of a node that survives a step changes only in a
   successful setPermissions on the path that names the node, made by the
   administrator or by a caller who holds read on every node of the path and
   read, write and control on the node; a caller who is neither is answered
   PermissionDenied and the store is unchanged; and no other action of the
   dispatcher, nor a login, changes the AccessMap of a surviving node. *)
C11_OnlySetPermissions == [][C11_SetPermsStep]_vars /\ []C11_OtherActions

\* User A, who held every capability on the node, replaced its own entry by
\* read alone.
C11_Witness ==
    /\ ret.op = "set_perms" /\ ret.uid = A_ID /\ ret.res.ok /\ ret.arg = R
    /\ Names(fs, ret.path)
    /\ AccessMap_get(fs.nodes[Target(fs, ret.path)].perms, A_ID) = R

-----------------------------------------------------------------------------
Usernames == {"admin", "A", "ghost"}

AdminOnly(name) ==
    {<<Action_AddUser(name), OnlyAdminUsers>>,
     <<Action_Unblock(name), OnlyAdminUnblock>>,
     <<Action_Logs, OnlyAdminLogs>>}

C12_Refused ==
    \A uid \in UserIds \ {ADMIN_ID}, name \in Usernames : \A a \in AdminOnly(name) :
        SessionLive(Sys, now, uid) =>
            LET c == System_exec(Sys, log, now, uid, a[1])
            IN /\ c.res = Err(a[2])
               /\ c.sys = Sys
               /\ c.log = Append(log, Audit(uid, a[1], a[2]))

C12_Added ==
    \A name \in Usernames :
        LET c == System_exec(Sys, log, now, ADMIN_ID, Action_AddUser(name))
            id == c.sys.users.unames[name]
        IN SessionLive(Sys, now, ADMIN_ID) /\ c.res.ok =>
              /\ name \notin DOMAIN users.unames
              /\ id \notin DOMAIN users.users
              /\ c.sys.users.users[id] = User_new(id, name, "")
              /\ c.sys.users.users[id].last_login_tries = 0
              /\ verify_password("", c.sys.users.users[id].pass)
              /\ \A u \in DOMAIN users.users : c.sys.users.users[u] = users.users[u]

NotAuthorized == {OnlyAdminUsers, OnlyAdminUnblock, OnlyAdminLogs}

\* The step appended the audit entry of an action refused as not authorized.
RefusedAsNotAuthorized ==
    /\ Len(log') = Len(log) + 1
    /\ Appended(log'[Len(log')])
    /\ Len(log'[Len(log')].msg) = 3
    /\ log'[Len(log')].msg[3] \in NotAuthorized

C12_Step ==
    RefusedAsNotAuthorized =>
        /\ log'[Len(log')].uid = {ret'.uid} /\ ret'.uid # ADMIN_ID
        /\ ret'.res = Err(log'[Len(log')].msg[3])
        /\ users' = users /\ fs' = fs /\ last_access' = last_access

(* C12: AddUser, Unblock and Logs made by a user other than the
   administrator, with a live session, fail with the not-authorized error of
   the action, change neither the user directory (no account created, no
   failure counter reset) nor anything else but the audit log, and return no
   audit entry; an AddUser that succeeds for the administrator creates an
   account with the empty password and a failure counter of zero and leaves
   the other accounts as they were. *)
C12_AdminOnly == [](C12_Refused /\ C12_Added) /\ [][C12_Step]_vars

\* User A, logged in and then blocked by three wrong passwords, asked for its
\* own unblocking, was refused and is still blocked.
C12_Witness ==
    /\ ret.op = "exec" /\ ret.uid = A_ID /\ ret.res = Err(OnlyAdminUnblock)
    /\ A_ID \in DOMAIN users.users /\ Blocked(users, A_ID)
    /\ log # <<>> /\ log[Len(log)] = Audit(A_ID, Action_Unblock("A"), OnlyAdminUnblock)

-----------------------------------------------------------------------------
\* The system and the logger that unpack makes of the image pack makes now.
Repacked == SystemImage_unpack(System_pack(Sys, take_logger(log).taken))

C13_Reproduces ==
    LET Then(boot) ==
            /\ boot.sys.fs = fs
            /\ boot.sys.users = users
            /\ boot.log = log
            /\ boot.sys.last_access = NoSessions
            /\ \A uid \in UserIds, cmd \in Actions :
                  System_exec(boot.sys, boot.log, now, uid, cmd)
                     = SysCall(boot.sys, boot.log, Err(AuthenticationRequired))
            /\ \A in \in LoginInputs :
                  LET Logged(c) ==
                          /\ c.res = System_login(Sys, log, now, in[1], in[2]).res
                          /\ c.res.ok =>
                                /\ \A uid \in UserIds :
                                      SessionLive(c.sys, now, uid) <=> uid = c.res.val
                                /\ System_exec(c.sys, c.log, now, c.res.val,
                                               Action_Ls(Docs)).res
                                      # Err(AuthenticationRequired)
                  IN Logged(System_login(boot.sys, boot.log, now, in[1], in[2]))
    IN Then(Repacked)

\* A step that empties a session table that was not empty is a restart.
C13_Restart ==
    last_access # NoSessions /\ last_access' = NoSessions =>
        fs' = fs /\ users' = users /\ log' = log

(* C13: pack followed by unpack gives a system whose node graph (node-id
   counter included), user directory (hashes and failure counters included)
   and audit entries are those before pack, and whose session table is
   empty: every action of every user is answered AuthenticationRequired and
   changes nothing, a login is answered as it was before pack, and after a
   successful login the session of that user, and of that user alone, is
   live. *)
C13_PackUnpack == []C13_Reproduces /\ [][C13_Restart]_vars

\* After a restart at time 0, user A, whose audited action is the entry the
\* log still holds, was refused at the gate.
C13_Witness ==
    /\ ret.op = "exec" /\ ret.uid = A_ID /\ ret.res = Err(AuthenticationRequired)
    /\ last_access = NoSessions /\ now = 0
    /\ Len(log) = 1 /\ log[1].uid = {A_ID}

-----------------------------------------------------------------------------
(* The transport (bin/server.rs): every request is a task that awaits the one
   lock of the System, runs System::login or System::exec under it and drops
   the guard when the endpoint returns.  A request advances by the steps of
   its handler; the steps of different requests interleave as the lock
   allows.  The clock stands still. *)

MaxRequests == 3   \* the transport serves at most MaxRequests requests

Requests == 1..MaxRequests

LoginRequest(name, pass) == [kind |-> "login", name |-> name, pass |-> pass]

ExecRequest(uid, cmd) == [kind |-> "exec", uid |-> uid, cmd |-> cmd]

Payloads ==
    {LoginRequest("admin", ""), LoginRequest("A", ""), LoginRequest("A", "pw"),
     ExecRequest(A_ID, Action_Read(Readme)),
     ExecRequest(ADMIN_ID, Action_Write(Readme, "bye")),
     ExecRequest(ADMIN_ID, Action_Logs)}

ServerBoot == SystemImage_unpack(CHOOSE image \in BootImages :
                                    image.fs = TreeImage(<<R, R, RXC>>))

\* A lock that is never found taken.
LockFree_always(sv) == TRUE

\* sys.lock().await returns when no guard is alive.
LockFree(sv) == sv.lock = {}

At(r, pc) == r \in DOMAIN server.reqs /\ server.reqs[r].pc = pc

Goto(r, pc, res) == [server EXCEPT !.reqs[r].pc = pc, !.reqs[r].res = res]

InitServer ==
    /\ fs = ServerBoot.sys.fs
    /\ users = ServerBoot.sys.users
    /\ last_access = ServerBoot.sys.last_access
    /\ log = ServerBoot.log
    /\ now = 0
    /\ ret = RetInit
    /\ server = ServerIdle

\* A request reaches its endpoint and waits for the lock.
Arrive(r, payload) ==
    /\ DOMAIN server.reqs = 1..(r - 1)
    /\ server' = [server EXCEPT
                     !.reqs = Append(@, [payload |-> payload, pc |-> "await",
                                         res |-> Ok(Unit)])]
    /\ UNCHANGED <<fs, users, last_access, now, log, ret>>

\* let mut sys = sys.lock().await
Lock(r) ==
    /\ At(r, "await")
    /\ LockFree(server)
    /\ server' = [server EXCEPT
                     !.lock = {r},
                     !.order = Append(@, r),
                     !.reqs[r].pc = IF server.reqs[r].payload.kind = "login"
                                    THEN "info" ELSE "dispatch"]
    /\ UNCHANGED <<fs, users, last_access, now, log, ret>>

\* System::login: info!("new login with {:?}", name)
LoginInfo(r) ==
    /\ At(r, "info")
    /\ log' = Logger_log(log, Log_new(<<"new login with", server.reqs[r].payload.name>>))
    /\ server' = Goto(r, "verify", Ok(Unit))
    /\ UNCHANGED <<fs, users, last_access, now, ret>>

\* System::login: self.users.login(name, pass)?; self.last_access.insert(..)
LoginVerify(r) ==
    /\ At(r, "verify")
    /\ \E c \in {UserDb_login(users, server.reqs[r].payload.name,
                               server.reqs[r].payload.pass)} :
          /\ users' = c.db
          /\ last_access' = IF c.res.ok THEN (c.res.val :> now) @@ last_access
                            ELSE last_access
          /\ server' = Goto(r, "unlock", c.res)
    /\ UNCHANGED <<fs, now, log, ret>>

\* System::exec: the session gate and the match.
ExecDispatch(r) ==
    /\ At(r, "dispatch")
    /\ \E uid \in {server.reqs[r].payload.uid}, cmd \in {server.reqs[r].payload.cmd} :
          IF ~SessionLive(Sys, now, uid)
          THEN /\ server' = Goto(r, "unlock", Err(AuthenticationRequired))
               /\ UNCHANGED <<fs, users, last_access>>
          ELSE IF cmd.tag = "SetPerms" /\ ~UserDb_id_of(users, cmd.username).ok
          THEN /\ server' = Goto(r, "unlock", UserDb_id_of(users, cmd.username))
               /\ UNCHANGED <<fs, users, last_access>>
          ELSE \E c \in {Dispatch(Sys, log, uid, cmd)} :
                  /\ fs' = c.sys.fs
                  /\ users' = c.sys.users
                  /\ last_access' = c.sys.last_access
                  /\ server' = Goto(r, "audit", c.res)
    /\ UNCHANGED <<now, log, ret>>

\* System::exec: info!(uid => "action {} => {:?}", cmd, res.as_ref().map(|_| ()))
ExecAudit(r) ==
    /\ At(r, "audit")
    /\ log' = Logger_log(log,
                 Log_new_with_uid(server.reqs[r].payload.uid,
                     <<"action", Action_Display(server.reqs[r].payload.cmd),
                       IF server.reqs[r].res.ok THEN "Ok(())"
                       ELSE server.reqs[r].res.err>>))
    /\ server' = Goto(r, "unlock", server.reqs[r].res)
    /\ UNCHANGED <<fs, users, last_access, now, ret>>

\* The endpoint returns its Json: the guard is dropped.
Unlock(r) ==
    /\ At(r, "unlock")
    /\ server' = [server EXCEPT !.lock = @ \ {r}, !.reqs[r].pc = "done"]
    /\ ret' = Ret(server.reqs[r].payload.kind,
                  IF server.reqs[r].payload.kind = "login" THEN NoUid
                  ELSE server.reqs[r].payload.uid,
                  <<>>, Unit, server.reqs[r].res)
    /\ UNCHANGED <<fs, users, last_access, now, log>>

NextServer ==
    \E r \in Requests :
        \/ \E payload \in Payloads : Arrive(r, payload)
        \/ Lock(r)
        \/ LoginInfo(r)
        \/ LoginVerify(r)
        \/ ExecDispatch(r)
        \/ ExecAudit(r)
        \/ Unlock(r)

SpecServer == InitServer /\ [][NextServer]_vars

-----------------------------------------------------------------------------
(* The requests run one at a time: System::login or System::exec, whole, on
   the system the previous request left. *)

SerialStep(st, payload) ==
    LET Then(c) == [sys |-> c.sys, log |-> c.log, results |-> Append(st.results, c.res)]
    IN IF payload.kind = "login"
       THEN Then(System_login(st.sys, st.log, now, payload.name, payload.pass))
       ELSE Then(System_exec(st.sys, st.log, now, payload.uid, payload.cmd))

RECURSIVE SerialRun(_, _)
SerialRun(st, payloads) ==
    IF payloads = <<>> THEN st
    ELSE SerialRun(SerialStep(st, Head(payloads)), Tail(payloads))

\* The payloads of the first k requests in the order the lock was acquired.
Acquired(k) == [i \in 1..k |-> server.reqs[server.order[i]].payload]

Serial(k) ==
    SerialRun([sys |-> ServerBoot.sys, log |-> ServerBoot.log, results |-> <<>>],
              Acquired(k))

InHandler == {r \in DOMAIN server.reqs :
                 server.reqs[r].pc \in {"info", "verify", "dispatch", "audit", "unlock"}}

(* C14: at most one request is between its acquisition of the lock and its
   release; whenever the lock is free, the system, the audit log and the
   result of every request served are those of running the requests one at a
   time in the order they acquired the lock, the audit entries in that order;
   and while a request holds the lock, the system is the one the requests
   before it left until the request acts, and the one the whole request
   leaves once it has acted. *)
C14_Linearizable ==
    LET n == Len(server.order)
        k == IF server.lock = {} THEN n ELSE n - 1
        Before(s) ==
            /\ \A i \in 1..k :
                  /\ server.reqs[server.order[i]].pc = "done"
                  /\ server.reqs[server.order[i]].res = s.results[i]
            /\ server.lock = {} => Sys = s.sys /\ log = s.log
            /\ \A r \in server.lock :
                  server.reqs[r].pc \in {"info", "dispatch"} => Sys = s.sys /\ log = s.log
        After(s) ==
            \A r \in server.lock :
                server.reqs[r].pc = "unlock" =>
                    /\ Sys = s.sys /\ log = s.log
                    /\ server.reqs[r].res = s.results[n]
    IN /\ InHandler = server.lock
       /\ Cardinality(InHandler) <= 1
       /\ \A r \in server.lock : n > 0 /\ server.order[n] = r
       /\ Before(Serial(k))
       /\ After(Serial(n))

\* Two requests of user A were served in the order of the lock and not of
\* their arrival: the read that arrived first was served after the login and
\* returned the content.
C14_Witness ==
    \E i, j \in 1..Len(server.order) :
        /\ i < j /\ server.order[j] < server.order[i]
        /\ server.reqs[server.order[i]].payload = LoginRequest("A", "")
        /\ server.reqs[server.order[i]].pc = "done"
        /\ server.reqs[server.order[j]].payload = ExecRequest(A_ID, Action_Read(Readme))
        /\ server.reqs[server.order[j]].pc = "done"
        /\ server.reqs[server.order[j]].res = Ok("hello")
        /\ Len(log) >= 2

-----------------------------------------------------------------------------
(* C15: every action that passes the session gate, whatever its variant and
   whatever its outcome, leaves the audit log exactly one entry longer, the
   earlier entries as they were, and the new entry carries the caller's
   id. *)
C15_OneEntryPerAction ==
    \A uid \in SysUids, cmd \in Actions :
        SessionLive(Sys, now, uid) =>
            LET c == System_exec(Sys, log, now, uid, cmd)
            IN /\ Len(c.log) = Len(log) + 1
               /\ SubSeq(c.log, 1, Len(log)) = log
               /\ c.log[Len(c.log)].uid = {uid}

-----------------------------------------------------------------------------
\* The names of the entries a list returned.
Listed(res) == {e.name : e \in res.val}

\* The children of the directory id, "." and ".." apart, on which uid holds
\* read.
ReadableChildren(f, uid, id) ==
    {n \in Children(f.nodes[id]) : HoldsOn(f, uid, f.nodes[id].nodes[n], "Read")}

(* C16: a list of a path that the caller resolves to a directory succeeds,
   whatever the caller holds on the children, and returns exactly the
   children of the directory on which the caller holds read: no unreadable
   child, every readable one, nothing else. *)
C16_ListsReadableChildren ==
    ret.op = "ls" =>
        LET Then(r) ==
                r.ok /\ fs.nodes[r.val].kind = "Dir" =>
                    /\ ret.res.ok
                    /\ Listed(ret.res) = ReadableChildren(fs, ret.uid, r.val)
        IN Then(resolve_path(fs, ret.uid, ret.path))

-----------------------------------------------------------------------------
(* C17: no entry that a list returns is named "." or "..", whoever the caller
   and whatever the directory, and a directory that has just been created
   lists as empty. *)
C17_NoSelfReferences ==
    /\ ret.op = "ls" /\ ret.res.ok => Listed(ret.res) \cap {".", ".."} = {}
    /\ ret.op = "new_dir" /\ ret.res.ok => Fs_ls(fs, ADMIN_ID, ret.path) = Ok({})

-----------------------------------------------------------------------------
(* users.rs: Perms as text.  A string is the sequence of its characters. *)

UnexpectedCharacter == "unexpected character"

\* impl Display for Perms
Perms_fmt(perms) ==
    <<IF perms.read THEN "r" ELSE "-",
      IF perms.write THEN "w" ELSE "-",
      IF perms.exec THEN "x" ELSE "-",
      IF perms.control THEN "c" ELSE "-">>

\* impl FromStr for Perms: the loop over s.chars(), this being the Perms
\* built so far.
RECURSIVE from_str_chars(_, _)
from_str_chars(this, chars) ==
    IF chars = <<>> THEN Ok(this)
    ELSE CASE Head(chars) = "r" -> from_str_chars([this EXCEPT !.read = TRUE], Tail(chars))
           [] Head(chars) = "w" -> from_str_chars([this EXCEPT !.write = TRUE], Tail(chars))
           [] Head(chars) = "e" -> from_str_chars([this EXCEPT !.exec = TRUE], Tail(chars))
           [] Head(chars) = "c" -> from_str_chars([this EXCEPT !.control = TRUE], Tail(chars))
           [] OTHER -> Err(UnexpectedCharacter)

Perms_from_str(s) == from_str_chars(PermsDefault, s)

(* The two conversions as functions: a Perms or a text is drawn, Display is
   applied to a Perms, FromStr to a text drawn or displayed. *)

MaxText == 4       \* a text drawn has at most MaxText characters

Chars == {"r", "w", "e", "x", "c", "-"}

NoPerms == {}

InitText ==
    /\ fs = Fs_new
    /\ users = UserDb_new
    /\ last_access = [u \in {} |-> 0]
    /\ now = 0
    /\ log = <<>>
    /\ server = ServerIdle
    /\ \/ \E perms \in Perms :
             ret = Ret("perms", ADMIN_ID, <<>>, [perms |-> {perms}, text |-> <<>>], Ok(Unit))
       \/ \E text \in SeqsUpTo(Chars, MaxText) :
             ret = Ret("text", ADMIN_ID, <<>>, [perms |-> NoPerms, text |-> text], Ok(Unit))

Display ==
    /\ ret.op = "perms"
    /\ \E perms \in ret.arg.perms :
          ret' = [ret EXCEPT !.op = "display",
                             !.arg.text = Perms_fmt(perms),
                             !.res = Ok(Perms_fmt(perms))]
    /\ UNCHANGED <<fs, users, last_access, now, log, server>>

FromStr ==
    /\ ret.op \in {"text", "display"}
    /\ ret' = [ret EXCEPT !.op = "from_str", !.res = Perms_from_str(ret.arg.text)]
    /\ UNCHANGED <<fs, users, last_access, now, log, server>>

NextText == Display \/ FromStr

SpecText == InitText /\ [][NextText]_vars

(* C18: rendering a Perms gives four characters, one per capability in the
   order read, write, exec, control, "-" for an absent one; and parsing the
   text that rendering a Perms gave succeeds and returns that Perms. *)
C18_RoundTrip ==
    /\ ret.op = "display" =>
          /\ Len(ret.res.val) = 4
          /\ \A perms \in ret.arg.perms :
                /\ ret.res.val[1] # "-" <=> perms.read
                /\ ret.res.val[2] # "-" <=> perms.write
                /\ ret.res.val[3] # "-" <=> perms.exec
                /\ ret.res.val[4] # "-" <=> perms.control
    /\ ret.op = "from_str" =>
          \A perms \in ret.arg.perms : ret.res = Ok(perms)

-----------------------------------------------------------------------------
\* The ids that the entries of the directories of f bind, "." and ".."
\* included.
BoundIds(f) ==
    UNION {{f.nodes[id].nodes[n] : n \in DOMAIN f.nodes[id].nodes} : id \in DOMAIN f.nodes}

C19_NoDangling ==
    /\ BoundIds(fs) \subseteq DOMAIN fs.nodes
    /\ ret.res.err # NodeShouldExist
    /\ \A uid \in FsUids, path \in FsPaths :
          /\ resolve_path_mut(fs, uid, path).err # NodeShouldExist
          /\ Fs_ls(fs, uid, path).err # NodeShouldExist
          /\ Fs_rm(fs, uid, path).res.err # NodeShouldExist
          /\ Fs_new_dir(fs, uid, path).res.err # NodeShouldExist

C19_Unbound ==
    ret'.op = "rm" /\ ret'.res.ok =>
        /\ Names(fs, ret'.path)
        /\ Target(fs, ret'.path) \notin DOMAIN fs'.nodes
        /\ Target(fs, ret'.path) \notin BoundIds(fs')
        /\ ~Names(fs', ret'.path)
        /\ DOMAIN fs'.nodes = DOMAIN fs.nodes \ {Target(fs, ret'.path)}

(* C19: in every reachable state of the node store every id bound by an entry
   of a live directory, "." and ".." included, is a key of the arena, so that
   no fetch of a node fails its "node should exist" assertion, whatever the
   creates, writes, setPermissions and removes made; and a successful remove
   leaves the removed node out of the arena and bound by no entry. *)
C19_NoDanglingIds == []C19_NoDangling /\ [][C19_Unbound]_vars

\* User A removed /docs/readme: /docs is still there and binds it no more.
C19_Witness ==
    /\ ret.op = "rm" /\ ret.uid = A_ID /\ ret.res.ok /\ ret.path = Readme
    /\ Names(fs, Docs) /\ ~Names(fs, Readme)
    /\ Children(fs.nodes[Target(fs, Docs)]) = {}

-----------------------------------------------------------------------------
(* C20: the size a list reports for a child that is a directory is the number
   of the entries of that directory other than "." and ".." (0 for an empty
   directory, k for one with k children), and for a child that is a file the
   length of its content. *)
C20_SizeOfChildren ==
    ret.op = "ls" /\ ret.res.ok =>
        LET dir == fs.nodes[Target(fs, ret.path)]
        IN \A e \in ret.res.val :
              e.name \in Children(dir) =>
                  LET child == fs.nodes[dir.nodes[e.name]]
                  IN e.size = IF child.kind = "Dir" THEN Cardinality(Children(child))
                              ELSE Len(child.content)

-----------------------------------------------------------------------------
\* The capability of perms that an entry of a list shows for op.
Shown(entry, op) == PermsHas(entry.perms, op)

(* C21: the permissions that a list reports for a child are the caller's own
   effective permissions on that child: for every caller, the administrator
   included, and every capability c, the entry shows c exactly when the
   child's AccessMap allows the caller the request {c}. *)
C21_EffectivePerms ==
    ret.op = "ls" /\ ret.res.ok =>
        LET dir == fs.nodes[Target(fs, ret.path)]
        IN \A e \in ret.res.val :
              e.name \in Children(dir) =>
                  \A c \in Op :
                      Shown(e, c) <=> allows(fs.nodes[dir.nodes[e.name]].perms, ret.uid, <<c>>)

-----------------------------------------------------------------------------
(* The accounts of the system served: logins with right and wrong passwords
   for the administrator and for user A, password changes, unblocks and one
   action on the store, from the image in which A reads /docs/readme. *)

AuthLogins ==
    {<<"admin", "">>, <<"admin", "pw">>, <<"A", "">>, <<"A", "pw">>, <<"ghost", "pw">>}

AuthActions ==
    {Action_ChangePassword(old, new) : old \in {"", "pw"}, new \in {"", "pw"}}
    \cup {Action_Unblock("A"), Action_Unblock("admin"), Action_Read(Readme)}

InitAuth ==
    /\ \E boot \in {SystemImage_unpack([fs |-> TreeImage(<<R, R, RXC>>),
                                        users |-> UsersWithA,
                                        logger |-> Logger_default])} :
          /\ fs = boot.sys.fs
          /\ users = boot.sys.users
          /\ last_access = boot.sys.last_access
          /\ log = boot.log
    /\ now = 0
    /\ ret = RetInit
    /\ server = ServerIdle

NextAuth ==
    \/ \E in \in AuthLogins : Login(in[1], in[2])
    \/ \E uid \in SysUids, cmd \in AuthActions : Exec(uid, cmd)
    \/ Tick
    \/ TakeLogger

SpecAuth == InitAuth /\ [][NextAuth]_vars

-----------------------------------------------------------------------------
Tries(db, uid) == db.users[uid].last_login_tries

\* The directory after the logins of the sequence, made in order.
RECURSIVE LoginsFrom(_, _)
LoginsFrom(db, logins) ==
    IF logins = <<>> THEN db
    ELSE LoginsFrom(UserDb_login(db, Head(logins)[1], Head(logins)[2]).db, Tail(logins))

\* Two wrong passwords, the correct one, two wrong passwords more.
TwoOneTwo ==
    <<<<"A", "pw">>, <<"A", "pw">>, <<"A", "">>, <<"A", "pw">>, <<"A", "pw">>>>

C22_Verification ==
    /\ \A uid \in DOMAIN users.users :
          /\ Tries(users, uid) \in 0..MAX_LOGIN_TRIES
          /\ User_is_blocked(users.users[uid]) <=> Tries(users, uid) = MAX_LOGIN_TRIES
          /\ \A pass \in Passes, new \in Passes :
                LET right == verify_password(pass, users.users[uid].pass)
                    Then(c) ==
                        ~User_is_blocked(users.users[uid]) =>
                            /\ c.res.ok <=> right
                            /\ right => Tries(c.db, uid) = 0
                            /\ ~right => Tries(c.db, uid) = Tries(users, uid) + 1
                            /\ \A other \in DOMAIN users.users \ {uid} :
                                  Tries(c.db, other) = Tries(users, other)
                IN /\ Then(UserDb_login_with_id(users, uid, pass))
                   /\ Then(UserDb_change_pass(users, uid, pass, new))
    /\ ~User_is_blocked(LoginsFrom(UsersWithA, TwoOneTwo).users[A_ID])
    /\ Tries(LoginsFrom(UsersWithA, TwoOneTwo), A_ID) = MAX_LOGIN_TRIES - 1

C22_Step ==
    \A uid \in DOMAIN users.users :
        /\ Tries(users', uid) \in {Tries(users, uid), 0, Tries(users, uid) + 1}
        /\ Tries(users', uid) = Tries(users, uid) + 1 =>
              /\ ~User_is_blocked(users.users[uid])
              /\ ~ret'.res.ok
              /\ ret'.res.err = IF Tries(users', uid) = MAX_LOGIN_TRIES
                                 THEN AccountIsBlocked ELSE WrongUname

(* C22: only consecutive failures count toward blocking.  On an account that
   is not blocked a successful verification of the password, by login or by
   changePassword, sets the failure counter to zero and a failed one adds
   exactly one to it, that account's counter alone; an account is blocked
   exactly when its counter has reached MAX_LOGIN_TRIES (3), which it never
   exceeds; two wrong passwords, a correct login and two more wrong passwords
   leave the account unblocked, its counter at two. *)
C22_ConsecutiveFailures == []C22_Verification /\ [][C22_Step]_vars

\* User A, who logged in at a later time than the boot, has since failed two
\* logins and is not blocked.
C22_Witness ==
    /\ A_ID \in DOMAIN last_access /\ last_access[A_ID] > 0
    /\ Tries(users, A_ID) = MAX_LOGIN_TRIES - 1
    /\ ~User_is_blocked(users.users[A_ID])
    /\ ret.op = "login" /\ ret.res = Err(WrongUname)
    /\ log = <<Log_new(<<"new login with", "A">>)>>

-----------------------------------------------------------------------------
StoredPass(db, uid) == db.users[uid].pass

C23_Change ==
    \A uid \in DOMAIN users.users, old \in Passes, new \in Passes :
        LET user == users.users[uid]
            right == verify_password(old, user.pass)
            Then(c) ==
                SessionLive(Sys, now, uid) =>
                    /\ c.sys.last_access = last_access
                    /\ c.sys.fs = fs
                    /\ User_is_blocked(user) =>
                          /\ c.res = Err(AccountBlocked)
                          /\ c.sys.users = users
                    /\ ~User_is_blocked(user) /\ ~right =>
                          /\ ~c.res.ok
                          /\ StoredPass(c.sys.users, uid) = user.pass
                          /\ Tries(c.sys.users, uid) = Tries(users, uid) + 1
                          /\ Tries(users, uid) = MAX_LOGIN_TRIES - 1 =>
                                /\ User_is_blocked(c.sys.users.users[uid])
                                /\ SessionLive(c.sys, now, uid)
                    /\ ~User_is_blocked(user) /\ right =>
                          /\ c.res = Ok(Unit)
                          /\ UserDb_login(c.sys.users, user.name, new).res = Ok(uid)
                          /\ old # new =>
                                ~UserDb_login(c.sys.users, user.name, old).res.ok
        IN Then(System_exec(Sys, log, now, uid, Action_ChangePassword(old, new)))

C23_Step ==
    \A uid \in DOMAIN users.users :
        StoredPass(users', uid) # StoredPass(users, uid) =>
            /\ Appended(Audit(uid, Action_ChangePassword("", ""), "Ok(())"))
            /\ ret'.op = "exec" /\ ret'.uid = uid /\ ret'.res = Ok(Unit)
            /\ ~User_is_blocked(users.users[uid])
            /\ Tries(users', uid) = 0

(* C23: changePassword verifies the old password on the lockout path of login
   before it commits the new one.  With a wrong old password the stored
   password is kept and the caller's failure counter rises by one, the third
   such failure blocking the account while its session stays valid; on a
   blocked account the call fails and keeps the password, the old password
   correct or not; after a success a login with the new password succeeds and
   a login with the old one, when it differs, fails.  The stored password
   changes in no other step. *)
C23_ChangePassword == []C23_Change /\ [][C23_Step]_vars

\* User A was blocked by a third wrong old password, inside the session
\* window.
C23_Witness ==
    /\ ret.op = "exec" /\ ret.uid = A_ID /\ ret.res = Err(AccountIsBlocked)
    /\ log = <<Audit(A_ID, Action_ChangePassword("", ""), AccountIsBlocked)>>
    /\ User_is_blocked(users.users[A_ID])
    /\ SessionLive(Sys, now, A_ID)

-----------------------------------------------------------------------------
\* The times, seen from t, at which the window of a login made at t is open,
\* closes and is closed.
WindowFrom(sys, t, uid) ==
    /\ SessionLive(sys, t, uid)
    /\ SessionLive(sys, t + INACTIVITY_TIMEOUT, uid)
    /\ ~SessionLive(sys, t + INACTIVITY_TIMEOUT + 1, uid)

C24_Logins ==
    \A in \in LoginInputs :
        LET Then(c) ==
                /\ ~c.res.ok => c.sys.last_access = last_access
                /\ c.res.ok =>
                      /\ DOMAIN c.sys.last_access = DOMAIN last_access \cup {c.res.val}
                      /\ c.sys.last_access[c.res.val] = now
                      /\ \A other \in DOMAIN last_access \ {c.res.val} :
                            c.sys.last_access[other] = last_access[other]
                      /\ WindowFrom(c.sys, now, c.res.val)
        IN Then(System_login(Sys, log, now, in[1], in[2]))

C24_Step ==
    last_access' # last_access =>
        \/ /\ ret'.op = "login" /\ ret'.res.ok
           /\ Appended(Log_new(<<"new login with", users.users[ret'.res.val].name>>))
           /\ last_access' = (ret'.res.val :> now) @@ last_access
        \/ /\ last_access' = NoSessions
           /\ ret' = ret /\ users' = users /\ fs' = fs /\ log' = log

(* C24: the session table changes only on a successful login.  A failed
   login, the user unknown, the password wrong or the account blocked, leaves
   every recorded login time as it is and records none; no dispatched action
   records, refreshes or drops a login time; a successful login records the
   time of the login for its user, over the time already recorded if there
   is one, so that the user's window runs INACTIVITY_TIMEOUT from the new
   login, and leaves the other users' times alone.  (The table is emptied by
   the restart from an image, which is no login and no action.) *)
C24_OnlyLogin == []C24_Logins /\ [][C24_Step]_vars

\* User A logged in again one window after the boot, the administrator's
\* older login still recorded; the window of A runs from the new login.
C24_Witness ==
    /\ ret.op = "login" /\ ret.res = Ok(A_ID)
    /\ now = TickStep
    /\ last_access = (A_ID :> TickStep) @@ (ADMIN_ID :> 0)
    /\ SessionLive(Sys, now + INACTIVITY_TIMEOUT, A_ID)

-----------------------------------------------------------------------------
Created(r) == r.op \in {"new_file", "new_dir"} /\ r.res.ok

C25_Below ==
    /\ \A id \in DOMAIN fs.nodes : id < fs.node_counter /\ fs.nodes[id].id = id
    /\ ROOT_ID \in DOMAIN fs.nodes
    /\ fs.nodes[ROOT_ID].kind = "Dir"
    /\ Target(fs, <<>>) = ROOT_ID
    /\ ROOT_ID = 0

C25_Step ==
    /\ fs'.node_counter >= fs.node_counter
    /\ DOMAIN fs'.nodes \subseteq DOMAIN fs.nodes \cup {fs.node_counter}
    /\ Created(ret') <=> fs'.node_counter # fs.node_counter
    /\ Created(ret') =>
          /\ fs'.node_counter = fs.node_counter + 1
          /\ DOMAIN fs'.nodes = DOMAIN fs.nodes \cup {fs.node_counter}
          /\ Names(fs', ret'.path)
          /\ Target(fs', ret'.path) = fs.node_counter
    /\ ret'.op = "rm" => fs'.node_counter = fs.node_counter

(* C25: node ids are never reused.  The node counter is greater than the id
   of every node of the arena, and it never goes down, a remove leaving it as
   it is; a successful newFile or newDirectory gives the new node the value
   of the counter and raises the counter by one, and no other step brings an
   id into the arena or moves the counter; so no node created after a
   removal has the id of a removed node.  The root is a directory of id 0
   and is always there. *)
C25_NoReuse == []C25_Below /\ [][C25_Step]_vars

\* /docs was created, removed and created again: the arena holds the root
\* and node 2, node 1 is gone for good.
C25_Witness ==
    /\ ret.op = "new_dir" /\ ret.res.ok /\ ret.path = Docs
    /\ DOMAIN fs.nodes = {ROOT_ID, 2}
    /\ Target(fs, Docs) = 2
    /\ fs.node_counter = 3

-----------------------------------------------------------------------------
\* The last segment of the path is bound in the directory that the segments
\* before it name.
FinalNameBound(f, path) ==
    /\ path # <<>>
    /\ Names(f, parent_of(path))
    /\ f.nodes[Target(f, parent_of(path))].kind = "Dir"
    /\ path[Len(path)] \in DOMAIN f.nodes[Target(f, parent_of(path))].nodes

NodeTags == {"File", "Dir"}

(* C26 as stated: newFile and newDirectory fail with AlreadyExists whenever
   the final name of the path is already bound in the parent directory, the
   names "." and ".." included, and leave the store as it is. *)
C26_AlwaysAlreadyExists ==
    \A uid \in FsUids, path \in FsPaths, tag \in NodeTags :
        FinalNameBound(fs, path) =>
            Fs_new_node(fs, uid, path, tag) = Call(fs, Err(AlreadyExists))

(* C26: newFile and newDirectory on a path whose final name is already bound
   in the parent directory, to a file or to a directory, never succeed and
   leave the store as it is: the existing node, its content and AccessMap,
   the parent's entries and the node counter.  The failure is the error of
   the resolution of the parent when the caller does not resolve it with
   write; else the bad-file-name error when the path ends in "." or "..";
   else AlreadyExists. *)
C26_BoundNameRefused ==
    \A uid \in FsUids, path \in FsPaths, tag \in NodeTags :
        FinalNameBound(fs, path) =>
            LET Then(parent, c) ==
                    /\ c.fs = fs
                    /\ ~parent.ok => c.res = parent
                    /\ parent.ok /\ path[Len(path)] \in {".", ".."} =>
                          c.res = Err(BadFileName)
                    /\ parent.ok /\ path[Len(path)] \notin {".", ".."} =>
                          c.res = Err(AlreadyExists)
            IN Then(resolve_parent_of_mut(fs, uid, path), Fs_new_node(fs, uid, path, tag))

\* User A, holding read and write on / and /docs, asked for a directory at
\* /docs/readme, which is a file: AlreadyExists, the file as it was.
C26_Witness ==
    /\ ret.op = "new_dir" /\ ret.uid = A_ID /\ ret.path = Readme
    /\ ret.res = Err(AlreadyExists)
    /\ Names(fs, Readme)
    /\ fs.nodes[Target(fs, Readme)].kind = "File"
    /\ fs.nodes[Target(fs, Readme)].content = "hello"

-----------------------------------------------------------------------------
\* Every operation of uid on the path that needs a capability on the node named
\* is refused, the store as it was, and the list of the parent leaves the
\* name out.
Shut(f, uid, path) ==
    /\ Fs_read(f, uid, path) = Err(PermissionDenied)
    /\ Fs_exec(f, uid, path) = Err(PermissionDenied)
    /\ Fs_ls(f, uid, path) = Err(PermissionDenied)
    /\ \A data \in Texts : Fs_write(f, uid, path, data) = Call(f, Err(PermissionDenied))
    /\ \A perms \in PermChoices :
          Fs_set_perms(f, uid, path, perms) = Call(f, Err(PermissionDenied))
    /\ \A res \in {Fs_ls(f, uid, parent_of(path))} :
          res.ok /\ path[Len(path)] \notin Listed(res)

C27_Shut ==
    \A uid \in FsUids \ {ADMIN_ID}, path \in FsPaths \ {<<>>} :
        (/\ Names(fs, path)
         /\ resolve_path(fs, uid, parent_of(path)).ok
         /\ uid \notin DOMAIN fs.nodes[Target(fs, path)].perms)
        => Shut(fs, uid, path)

C27_Step ==
    /\ Created(ret') =>
          /\ fs'.nodes[fs.node_counter].perms = AccessMap_new
          /\ ret'.uid # ADMIN_ID =>
                /\ allows(fs.nodes[Target(fs, parent_of(ret'.path))].perms, ret'.uid,
                          <<"Read", "Write">>)
                /\ Shut(fs', ret'.uid, ret'.path)
    /\ \A id \in DOMAIN fs.nodes \cap DOMAIN fs'.nodes :
          fs'.nodes[id].perms # fs.nodes[id].perms =>
              /\ ret'.op = "set_perms" /\ ret'.res.ok
              /\ Target(fs, ret'.path) = id
              /\ HoldsOn(fs, ret'.uid, id, "Control")

(* C27: a node starts with an empty AccessMap.  After a user other than the
   administrator, holding read and write on the parent directory, has
   created a file or a directory, that user holds no capability on the new
   node: the creator's read, write, exec, list and setPermissions on it fail
   with PermissionDenied and change nothing, and the list of the parent
   leaves it out.  This lasts for as long as the AccessMap has no entry of
   that user, and an AccessMap changes only in a successful setPermissions
   of a caller who holds control on the node. *)
C27_CreatorLockedOut == []C27_Shut /\ [][C27_Step]_vars

\* User A, holding read and write on the root, created /docs and has no
\* entry in its AccessMap.
C27_Witness ==
    /\ Created(ret) /\ ret.uid = A_ID /\ ret.path = Docs
    /\ Names(fs, Docs)
    /\ fs.nodes[Target(fs, Docs)].perms = AccessMap_new
    /\ Fs_ls(fs, A_ID, <<>>).ok

-----------------------------------------------------------------------------
\* Three wrong passwords for the administrator.
ThreeWrong == <<<<"admin", "pw">>, <<"admin", "pw">>, <<"admin", "pw">>>>

\* The administrator is blocked and has no login inside its window.
AdminLockedOut == Blocked(users, ADMIN_ID) /\ ~SessionLive(Sys, now, ADMIN_ID)

C28_Blocked ==
    /\ Blocked(LoginsFrom(UsersWithA, ThreeWrong), ADMIN_ID)
    /\ UserDb_login(LoginsFrom(UsersWithA, ThreeWrong), "admin", "").res
          = Err(AccountBlocked)
    /\ \A pass \in Passes :
          LET Then(c) ==
                  /\ Blocked(users, ADMIN_ID) =>
                        /\ c.res = Err(AccountBlocked)
                        /\ c.sys = Sys
                  /\ (/\ Tries(users, ADMIN_ID) = MAX_LOGIN_TRIES - 1
                      /\ ~verify_password(pass, StoredPass(users, ADMIN_ID)))
                     => /\ c.res = Err(AccountIsBlocked)
                        /\ Blocked(c.sys.users, ADMIN_ID)
          IN Then(System_login(Sys, log, now, "admin", pass))

C28_DeadEnd ==
    AdminLockedOut =>
        /\ AdminLockedOut'
        /\ \A uid \in DOMAIN users.users : Blocked(users, uid) => Blocked(users', uid)
        /\ ~(ret'.op = "login" /\ ret'.res = Ok(ADMIN_ID) /\ ret' # ret)
        /\ \A uid \in DOMAIN users.users \ {ADMIN_ID} :
              Appended(Audit(uid, Action_Unblock("admin"), OnlyAdminUnblock)) => users' = users

(* C28: the lockout has no exemption for the administrator.  Three
   consecutive wrong passwords for "admin" block the administrator's account,
   and a login as admin then fails, the correct password included.  From a
   state in which the administrator is blocked and has no login inside its
   window, no login and no action of anyone unblocks an account or lets the
   administrator log in: the state is kept by every step. *)
C28_AdminLockout == []C28_Blocked /\ [][C28_DeadEnd]_vars

\* The administrator and user A are both blocked, the administrator without
\* a session; a login as admin has just been refused as blocked.
C28_Witness ==
    /\ AdminLockedOut
    /\ Blocked(users, A_ID)
    /\ StoredPass(users, ADMIN_ID) = hash_password("")
    /\ ret.op = "login" /\ ret.res = Err(AccountBlocked)
    /\ log = <<Log_new(<<"new login with", "admin">>)>>

-----------------------------------------------------------------------------
\* A login of uid is recorded and INACTIVITY_TIMEOUT has not gone by since.
InWindow(uid) ==
    uid \in DOMAIN last_access /\ now - last_access[uid] <= INACTIVITY_TIMEOUT

\* The system with the failure counter of uid set to n.
WithTries(uid, n) == [Sys EXCEPT !.users.users[uid].last_login_tries = n]

Refused(c) == c.res = Err(AuthenticationRequired)

C29_Gate ==
    \A uid \in DOMAIN users.users, cmd \in AuthActions :
        /\ \A c \in {System_exec(Sys, log, now, uid, cmd)} :
              /\ InWindow(uid) =>
                    /\ ~Refused(c)
                    /\ c.log = Append(log, Audit(uid, cmd, IF c.res.ok THEN "Ok(())"
                                                           ELSE c.res.err))
              /\ ~InWindow(uid) => Refused(c) /\ c.sys = Sys /\ c.log = log
        /\ cmd = Action_Read(Readme) =>
              /\ \A n \in {0, MAX_LOGIN_TRIES} :
                    Refused(System_exec(WithTries(uid, n), log, now, uid, cmd))
                       <=> ~InWindow(uid)
              /\ InWindow(uid) /\ Blocked(users, uid) =>
                    System_exec(Sys, log, now, uid, cmd).res = Ok("hello")

C29_Step ==
    \A uid \in DOMAIN users.users :
        ~Blocked(users, uid) /\ Blocked(users', uid) =>
            /\ last_access' = last_access
            /\ InWindow(uid) => InWindow(uid)'
            /\ \/ Appended(Log_new(<<"new login with", users.users[uid].name>>))
               \/ \E old \in Passes :
                     Appended(Audit(uid, Action_ChangePassword(old, old), AccountIsBlocked))

(* C29: blocking an account does not revoke its session.  The session gate
   passes an action exactly when a login of its user is recorded and no more
   than INACTIVITY_TIMEOUT has gone by since, whatever the failure counter
   of the account; an account becomes blocked only by a failed login to it
   or by its user's own failed changePassword, and that step leaves the
   recorded login times as they are; so the actions of a user blocked inside
   the window are still dispatched and audited until the window has gone
   by. *)
C29_SessionSurvivesBlock == []C29_Gate /\ [][C29_Step]_vars

\* User A, blocked and inside the window, has just read /docs/readme.
C29_Witness ==
    /\ Blocked(users, A_ID)
    /\ InWindow(A_ID)
    /\ ret.op = "exec" /\ ret.uid = A_ID /\ ret.res = Ok("hello")
    /\ log = <<Audit(A_ID, Action_Read(Readme), "Ok(())")>>

-----------------------------------------------------------------------------
\* The bindings <<directory, name>> of the live directories, "." and ".."
\* apart, that bind id.
Binders(f, id) ==
    {b \in UNION {{<<d, n>> : n \in Children(f.nodes[d])} :
                     d \in {x \in DOMAIN f.nodes : f.nodes[x].kind = "Dir"}} :
        f.nodes[b[1]].nodes[b[2]] = id}

\* The live nodes that the bindings lead to from the nodes of ids, "." and
\* ".." apart.
RECURSIVE ReachableFrom(_, _)
ReachableFrom(f, ids) ==
    LET next == ids \cup
                UNION {{f.nodes[d].nodes[n] : n \in Children(f.nodes[d])} \cap DOMAIN f.nodes :
                          d \in ids}
    IN IF next = ids THEN ids ELSE ReachableFrom(f, next)

C30_Tree ==
    /\ ROOT_ID \in DOMAIN fs.nodes
    /\ Binders(fs, ROOT_ID) = {}
    /\ \A id \in DOMAIN fs.nodes \ {ROOT_ID} : Cardinality(Binders(fs, id)) = 1
    /\ ReachableFrom(fs, {ROOT_ID}) = DOMAIN fs.nodes

C30_Atomic ==
    \A uid \in FsUids, path \in FsPaths :
        LET Kept(c) == ~c.res.ok => c.fs = fs
        IN /\ \A data \in Texts : Kept(Fs_write(fs, uid, path, data))
           /\ \A perms \in PermChoices : Kept(Fs_set_perms(fs, uid, path, perms))
           /\ Kept(Fs_rm(fs, uid, path))
           /\ Kept(Fs_new_file(fs, uid, path))
           /\ Kept(Fs_new_dir(fs, uid, path))

C30_Step ==
    /\ ~ret'.res.ok => fs' = fs
    /\ ret'.op \in {"read", "exec", "ls"} => fs' = fs
    /\ ret'.op = "rm" /\ ret'.res.ok =>
          /\ Cardinality(DOMAIN fs'.nodes) = Cardinality(DOMAIN fs.nodes) - 1
          /\ \A id \in DOMAIN fs'.nodes : Binders(fs', id) = Binders(fs, id)

(* C30: failure atomicity and tree shape of the node graph.  An operation of
   the node store that returns a failure leaves the arena, the directory
   entries, the contents, the AccessMaps and the node counter as they were;
   and in every reachable state every live node other than the root is
   bound by exactly one entry other than "." and ".." of exactly one live
   directory, the root by none, and every live node is reachable from the
   root, a successful remove taking exactly the removed node out of the
   arena and leaving no orphan. *)
C30_AtomicTree == [](C30_Tree /\ C30_Atomic) /\ [][C30_Step]_vars

\* /docs/readme and then /docs were removed: the arena holds the root alone,
\* which binds nothing.
C30_Witness ==
    /\ ret.op = "rm" /\ ret.res.ok /\ ret.path = Docs
    /\ fs.node_counter = 3
    /\ DOMAIN fs.nodes = {ROOT_ID}
    /\ Children(fs.nodes[ROOT_ID]) = {}

=============================================================================
